---- MODULE Spec2Model ----
(***************************************************************************)
(* License / authorization core of the accessibility tool, with the        *)
(* command-line scanner and the toolbar component that sit on top of it.   *)
(*                                                                         *)
(* Three variants of one entitlement check are modelled:                   *)
(*   "authorization"  authorization.js   (authorizeUsage, usage tracking)  *)
(*   "file"           license.js         (validateLicense, file cache)     *)
(*   "browser"        license-browser.js (validateLicense, localStorage)   *)
(* One behaviour of the model is one process running one variant against   *)
(* its own cache store, every exported operation being one atomic action;  *)
(* FetchSpec and RaceSpec split a call at its await, and RaceSpec also at  *)
(* the file operations that two processes can interleave.                  *)
(*                                                                         *)
(* Spec        the process: calls, clears and the clock                    *)
(* HelperSpec  the helper functions applied to arguments of their own      *)
(* UsageSpec   trackUsage called again and again                           *)
(* FetchSpec   the call split at `await fetch`, with fairness              *)
(* ToolbarSpec the toolbar component and the clicks on its controls        *)
(* CliSpec     runs of the command-line scanner, with fairness             *)
(* StoreSpec   calls over a cache store found with foreign contents        *)
(* RaceSpec    two calls under way at once, in one or in two processes     *)
(*                                                                         *)
(* JavaScript values are records [t, s, n]: t is the type tag, s the text  *)
(* of a string as a sequence of fragments (input strings are sequences of  *)
(* single characters, string literals of the code are one fragment), n the *)
(* number of a number, a Date or an ISO timestamp string (milliseconds).   *)
(***************************************************************************)
EXTENDS Integers, Sequences, FiniteSets, TLC

(***************************************************************************)
(* JavaScript values                                                       *)
(***************************************************************************)
Undef == [t |-> "undefined", s |-> <<>>, n |-> 0]

Null == [t |-> "null", s |-> <<>>, n |-> 0]

Bool(b) == [t |-> "boolean", s |-> <<>>, n |-> IF b THEN 1 ELSE 0]

Str(parts) == [t |-> "string", s |-> parts, n |-> 0]

Num(k) == [t |-> "number", s |-> <<>>, n |-> k]

NaN == [t |-> "number", s |-> <<"NaN">>, n |-> 0]

\* new Date(ms) for a valid time value
DateOf(ms) == [t |-> "date", s |-> <<>>, n |-> ms]

InvalidDate == [t |-> "date", s |-> <<"Invalid Date">>, n |-> 0]

\* Date.prototype.toISOString(): an ISO-8601 string with millisecond precision
toISOString(ms) == [t |-> "string", s |-> <<"ISO-8601">>, n |-> ms]

\* ToBoolean: undefined, null, false, "", 0 and NaN are falsy
Truthy(v) ==
    CASE v.t = "undefined" -> FALSE
      [] v.t = "null" -> FALSE
      [] v.t = "boolean" -> v.n = 1
      [] v.t = "string" -> v.s # <<>>
      [] v.t = "number" -> v.s = <<>> /\ v.n # 0
      [] OTHER -> TRUE

\* a || b
Or(a, b) == IF Truthy(a) THEN a ELSE b

\* x === true
IsTrue(v) == v = Bool(TRUE)

\* new Date(x): ISO strings and Dates give their time value, undefined and
\* unparsable strings give an Invalid Date, null and numbers their number
NewDate(v) ==
    CASE v.t = "date" -> v
      [] v.t = "string" /\ v.s = <<"ISO-8601">> -> DateOf(v.n)
      [] v.t = "number" /\ v.s = <<>> -> DateOf(v.n)
      [] v.t = "null" -> DateOf(0)
      [] v.t = "boolean" -> DateOf(v.n)
      [] OTHER -> InvalidDate

\* Date.prototype.getTime(): NaN for an Invalid Date
getTime(d) == IF d = InvalidDate THEN NaN ELSE Num(d.n)

\* a - b < c on numbers: every comparison with NaN is false
MinusLess(a, b, c) == a.s = <<>> /\ b.s = <<>> /\ a.n - b.n < c

\* JSON.parse(JSON.stringify(v)) of one value: a Date becomes its ISO string,
\* an Invalid Date becomes null, NaN becomes null, undefined is dropped
JsonValue(v) ==
    CASE v.t = "date" /\ v = InvalidDate -> Null
      [] v.t = "date" -> toISOString(v.n)
      [] v = NaN -> Null
      [] OTHER -> v

(***************************************************************************)
(* Characters                                                              *)
(***************************************************************************)
UpperCase == <<"A","B","C","D","E","F","G","H","I","J","K","L","M",
               "N","O","P","Q","R","S","T","U","V","W","X","Y","Z">>

LowerCase == <<"a","b","c","d","e","f","g","h","i","j","k","l","m",
               "n","o","p","q","r","s","t","u","v","w","x","y","z">>

Digits == {"0","1","2","3","4","5","6","7","8","9"}

Range(f) == {f[i] : i \in DOMAIN f}

UpperLetters == Range(UpperCase)

LowerLetters == Range(LowerCase)

\* [0-9a-f] with the i flag
IsHex(c) == c \in Digits \cup {"a","b","c","d","e","f","A","B","C","D","E","F"}

\* [A-Z0-9] with the i flag
IsAlnum(c) == c \in Digits \cup UpperLetters \cup LowerLetters

\* String.prototype.toLowerCase() on one character
LowerChar(c) ==
    IF c \in UpperLetters
    THEN LowerCase[CHOOSE i \in DOMAIN UpperCase : UpperCase[i] = c]
    ELSE c

toLowerCase(cs) == [i \in DOMAIN cs |-> LowerChar(cs[i])]

IsSpace(c) == c \in {" ", "\t", "\n"}

\* cs without its first k characters
Drop(cs, k) == SubSeq(cs, k + 1, Len(cs))

StartsWith(cs, p) == Len(cs) >= Len(p) /\ SubSeq(cs, 1, Len(p)) = p

(***************************************************************************)
(* Key format validator and domain normalizer                              *)
(***************************************************************************)
\* /^[0-9a-f]{8}-[0-9a-f]{4}-[0-9a-f]{4}-[0-9a-f]{4}-[0-9a-f]{12}$/i
uuidPattern(cs) ==
    /\ Len(cs) = 36
    /\ \A i \in 1..36 : IF i \in {9, 14, 19, 24} THEN cs[i] = "-" ELSE IsHex(cs[i])

\* mutant of simplePattern: /^[A-Z0-9]{16,}/i, the end of the key is not anchored
simplePatternUnanchored(cs) == Len(cs) >= 16 /\ \A i \in 1..16 : IsAlnum(cs[i])

\* /^[A-Z0-9]{16,}$/i
simplePattern(cs) == Len(cs) >= 16 /\ \A i \in 1..Len(cs) : IsAlnum(cs[i])

\* mutant of isValidLicenseKeyFormat: the patterns are not tested
isValidLicenseKeyFormatLax(licenseKey) == Truthy(licenseKey) /\ licenseKey.t = "string"

\* isValidLicenseKeyFormat(licenseKey): the same code in the three variants
isValidLicenseKeyFormat(licenseKey) ==
    IF ~Truthy(licenseKey) \/ licenseKey.t # "string"
    THEN FALSE
    ELSE uuidPattern(licenseKey.s) \/ simplePattern(licenseKey.s)

\* .replace(/^https?:\/\//, "")
StripScheme(cs) ==
    IF StartsWith(cs, <<"h","t","t","p",":","/","/">>) THEN Drop(cs, 7)
    ELSE IF StartsWith(cs, <<"h","t","t","p","s",":","/","/">>) THEN Drop(cs, 8)
    ELSE cs

\* .replace(/^\/*/, "")
RECURSIVE StripLeadingSlashes(_)
StripLeadingSlashes(cs) ==
    IF cs # <<>> /\ Head(cs) = "/" THEN StripLeadingSlashes(Tail(cs)) ELSE cs

\* .replace(/\/.*$/, ""): cut at the leftmost "/" that no line terminator follows
StripPath(cs) ==
    LET cuts == {i \in 1..Len(cs) :
                    cs[i] = "/" /\ \A j \in (i + 1)..Len(cs) : cs[j] # "\n"}
    IN IF cuts = {} THEN cs
       ELSE SubSeq(cs, 1, (CHOOSE i \in cuts : \A j \in cuts : i <= j) - 1)

RECURSIVE TrimStart(_)
TrimStart(cs) == IF cs # <<>> /\ IsSpace(Head(cs)) THEN TrimStart(Tail(cs)) ELSE cs

RECURSIVE TrimEnd(_)
TrimEnd(cs) ==
    IF cs # <<>> /\ IsSpace(cs[Len(cs)]) THEN TrimEnd(SubSeq(cs, 1, Len(cs) - 1)) ELSE cs

\* .trim()
Trim(cs) == TrimEnd(TrimStart(cs))

\* normalizeDomain(domain)
normalizeDomain(domain) ==
    IF ~Truthy(domain) \/ domain.t # "string"
    THEN Null
    ELSE Str(Trim(StripPath(StripLeadingSlashes(StripScheme(toLowerCase(domain.s))))))

(***************************************************************************)
(* Configuration                                                           *)
(***************************************************************************)
CACHE_TTL_HOURS == 24

MAX_USAGE_ENTRIES == 100

\* const ttlMs = CACHE_TTL_HOURS * 60 * 60 * 1000
ttlMs == CACHE_TTL_HOURS * 60 * 60 * 1000

free == <<"f","r","e","e">>

pro == <<"p","r","o">>

enterprise == <<"e","n","t","e","r","p","r","i","s","e">>

\* CONFIG.PAID_TIERS, and paidTiers of the validateLicense variants
PAID_TIERS == {Str(pro), Str(enterprise)}

(***************************************************************************)
(* Entitlement results.  One record shape serves the three variants; a     *)
(* property an object does not have is Undef.                              *)
(***************************************************************************)
EmptyObject ==
    [valid |-> Undef, authorized |-> Undef, expired |-> Undef, domainMatch |-> Undef,
     tier |-> Undef, expiresAt |-> Undef, domain |-> Undef, authorizedAt |-> Undef,
     error |-> Undef, message |-> Undef, fromCache |-> Undef]

\* `${prefix}${v}` for a string v
Template(prefix, v) == Str(<<prefix>> \o v.s)

\* createFreeResult(reason) of the authorization module
createFreeResult(reason) ==
    [EmptyObject EXCEPT !.valid = Bool(FALSE), !.authorized = Bool(FALSE),
                        !.tier = Str(free), !.expiresAt = Null, !.error = reason,
                        !.message = Template("Free mode - ", reason),
                        !.fromCache = Bool(FALSE)]

\* createFailOpenResult(reason) of license.js and license-browser.js
createFailOpenResult(reason) ==
    [EmptyObject EXCEPT !.valid = Bool(FALSE), !.expired = Bool(FALSE),
                        !.domainMatch = Bool(FALSE), !.tier = Str(free),
                        !.expiresAt = Null, !.error = reason,
                        !.fromCache = Bool(FALSE)]

\* JSON.parse(JSON.stringify(result)): what a cached result looks like when read back
JsonRoundTrip(r) == [f \in DOMAIN r |-> JsonValue(r[f])]

\* { ...result, fromCache: true }
WithFromCache(r) == [r EXCEPT !.fromCache = Bool(TRUE)]

(***************************************************************************)
(* The remote endpoint.  An outcome of one POST is a transport failure     *)
(* (fetch rejects), an HTTP status with a body that does not parse, or an  *)
(* HTTP status with a parsed JSON body: an object, null, or a number.      *)
(***************************************************************************)
NoBody ==
    [shape |-> "none", valid |-> Undef, expired |-> Undef, domain_match |-> Undef,
     authorized |-> Undef, tier |-> Undef, expires_at |-> Undef, error |-> Undef]

\* an object of the code's own making: { authorized: false, error }
ErrorObject(error) ==
    [NoBody EXCEPT !.shape = "object", !.authorized = Bool(FALSE), !.error = error]

\* response.ok
ResponseOk(status) == status >= 200 /\ status <= 299

\* String.prototype.toUpperCase() on one character
UpperChar(c) ==
    IF c \in LowerLetters
    THEN UpperCase[CHOOSE i \in DOMAIN LowerCase : LowerCase[i] = c]
    ELSE c

toUpperCase(cs) == [i \in DOMAIN cs |-> UpperChar(cs[i])]

\* mutant of callAuthorizationApi: response.ok is not looked at
callAuthorizationApiNoStatusCheck(remote) ==
    CASE remote.kind \in {"transport", "unparsable"} ->
            ErrorObject(Str(<<"NETWORK_ERROR:", remote.message>>))
      [] OTHER -> remote.body

\* callAuthorizationApi: the apiResult it resolves to (it never rejects)
callAuthorizationApi(remote) ==
    CASE remote.kind = "transport" ->
            ErrorObject(Str(<<"NETWORK_ERROR:", remote.message>>))
      [] ~ResponseOk(remote.status) ->
            ErrorObject(Str(<<"API_ERROR:", ToString(remote.status)>>))
      [] remote.kind = "unparsable" ->
            ErrorObject(Str(<<"NETWORK_ERROR:", remote.message>>))
      [] OTHER -> remote.body

(***************************************************************************)
(* Stores.  A cache store holds no file ("absent"), text that does not     *)
(* parse ("corrupt"), the text "null", or a JSON object ("json") with an   *)
(* optional timestamp and an optional result ("{}" has neither).           *)
(***************************************************************************)
NoFile == [kind |-> "absent", timestamp |-> Undef, hasResult |-> FALSE, result |-> EmptyObject]

CorruptFile == [NoFile EXCEPT !.kind = "corrupt"]

\* the text "{}"
EmptyFile == [NoFile EXCEPT !.kind = "json"]

\* { timestamp: new Date().toISOString(), result } as JSON text
CacheData(result, now) ==
    [kind |-> "json", timestamp |-> toISOString(now), hasResult |-> TRUE,
     result |-> JsonRoundTrip(result)]

Miss == [hit |-> FALSE, result |-> EmptyObject]

Hit(result) == [hit |-> TRUE, result |-> result]

\* mutant of Fresh: the TTL is computed in minutes, CACHE_TTL_HOURS * 60 * 1000
FreshWrongUnit(timestamp, now) ==
    MinusLess(Num(now), getTime(NewDate(timestamp)), CACHE_TTL_HOURS * 60 * 1000)

\* mutant of Fresh: now - cachedTime <= ttlMs
FreshInclusive(timestamp, now) ==
    MinusLess(Num(now), getTime(NewDate(timestamp)), ttlMs + 1)

\* now - cachedTime < ttlMs, cachedTime = new Date(cached.timestamp).getTime()
Fresh(timestamp, now) == MinusLess(Num(now), getTime(NewDate(timestamp)), ttlMs)

\* readCache() of the authorization module; a hit stands for the entry `cached`
readCacheAuth(cache, now) ==
    IF cache.kind # "json" \/ ~cache.hasResult THEN Miss
    ELSE IF Fresh(cache.timestamp, now) THEN Hit(cache.result)
    ELSE Miss

\* readCache() of license.js: JSON.parse and the property reads are inside the try;
\* a record without result gives undefined
readCacheFile(cache, now) ==
    IF cache.kind # "json" THEN Miss
    ELSE IF Fresh(cache.timestamp, now) /\ cache.hasResult THEN Hit(cache.result)
    ELSE Miss

\* readCache() of license-browser.js over BrowserStorage.get
readCacheBrowser(cache, now) ==
    IF cache.kind # "json" THEN Miss
    ELSE IF Fresh(cache.timestamp, now) /\ cache.hasResult THEN Hit(cache.result)
    ELSE Miss

\* mutant of writeCache: only a valid result is written
writeCacheValidOnly(cache, result, now, writable) ==
    IF writable /\ IsTrue(result.valid) THEN CacheData(result, now) ELSE cache

\* writeCache(result): a failed write is swallowed and leaves the store as it was
writeCache(cache, result, now, writable) ==
    IF writable THEN CacheData(result, now) ELSE cache

(***************************************************************************)
(* Usage tracking (authorization module)                                   *)
(***************************************************************************)
NoUsage ==
    [kind |-> "absent", firstUsed |-> Undef, lastUsed |-> Undef, packageName |-> Undef,
     packageVersion |-> Undef, domain |-> Undef, hasUses |-> FALSE, uses |-> <<>>]

CorruptUsage == [NoUsage EXCEPT !.kind = "corrupt"]

\* the text "{}", as clearAuthCache writes it
EmptyUsage == [NoUsage EXCEPT !.kind = "json"]

NoPackage == [has |-> FALSE, name |-> Undef, version |-> Undef]

\* mutant of Truncate: slice(0, MAX_USAGE_ENTRIES) keeps the oldest entries
TruncateKeepsOldest(uses) ==
    IF Len(uses) > MAX_USAGE_ENTRIES THEN SubSeq(uses, 1, MAX_USAGE_ENTRIES) ELSE uses

\* usage.uses.slice(-MAX_USAGE_ENTRIES) when the list is longer than the cap
Truncate(uses) ==
    IF Len(uses) > MAX_USAGE_ENTRIES
    THEN SubSeq(uses, Len(uses) - MAX_USAGE_ENTRIES + 1, Len(uses))
    ELSE uses

\* trackUsage(packageInfo, domain): the usage store it leaves
trackUsage(usage, packageInfo, domain, now, writable) ==
    LET read == IF usage.kind = "json" THEN usage
                ELSE [NoUsage EXCEPT !.kind = "json", !.firstUsed = toISOString(now),
                                     !.hasUses = TRUE]
        entry == [timestamp |-> toISOString(now), domain |-> normalizeDomain(domain)]
        next == [read EXCEPT
                    !.lastUsed = toISOString(now),
                    !.packageName = Or(packageInfo.name, Str(<<"unknown">>)),
                    !.packageVersion = Or(packageInfo.version, Str(<<"unknown">>)),
                    !.domain = normalizeDomain(domain),
                    !.uses = Truncate(Append(read.uses, entry))]
    IN  IF ~read.hasUses THEN usage          \* usage.uses.push throws, swallowed
        ELSE IF writable THEN next
        ELSE usage

(***************************************************************************)
(* authorizeUsage (authorization module)                                   *)
(***************************************************************************)
Returned(result) == [threw |-> FALSE, result |-> result]

\* a TypeError leaves the function: the promise rejects
Thrown == [threw |-> TRUE, result |-> EmptyObject]

\* "Build result": apiResult.authorized ? { valid: true, ... } : createFreeResult(...)
BuildResult(apiResult, normalizedDomain, now) ==
    IF apiResult.shape = "null" THEN Thrown            \* apiResult.authorized of null
    ELSE IF Truthy(apiResult.authorized)
    THEN IF Or(apiResult.tier, Str(<<"P","R","O">>)).t # "string"
         THEN Thrown                                   \* .toUpperCase is not a function
         ELSE Returned(
                [EmptyObject EXCEPT
                    !.valid = Bool(TRUE),
                    !.authorized = Bool(TRUE),
                    !.tier = Or(apiResult.tier, Str(pro)),
                    !.expiresAt = IF Truthy(apiResult.expires_at)
                                  THEN NewDate(apiResult.expires_at) ELSE Null,
                    !.domain = normalizedDomain,
                    !.authorizedAt = toISOString(now),
                    !.message = Str(toUpperCase(Or(apiResult.tier, Str(<<"P","R","O">>)).s)
                                    \o <<" license authorized">>),
                    !.fromCache = Bool(FALSE)])
    ELSE Returned(createFreeResult(Or(apiResult.error, Str(<<"Authorization failed">>))))

\* mutant of authorizeUsage: the cache is consulted before the key is looked at
authorizeUsageCacheFirst(licenseKey, domain, cache, usage, packageInfo, remote, now, cacheOk, usageOk) ==
    LET normalizedDomain == normalizeDomain(domain)
        cached == readCacheAuth(cache, now)
        built == BuildResult(callAuthorizationApi(remote), normalizedDomain, now)
        Quiet(ret, branch) == [ret |-> ret, branch |-> branch, posts |-> 0,
                               cache |-> cache, usage |-> usage]
    IN  IF cached.hit
        THEN [ret |-> Returned(WithFromCache(cached.result)), branch |-> "CACHE_HIT",
              posts |-> 0, cache |-> cache,
              usage |-> trackUsage(usage, packageInfo, normalizedDomain, now, usageOk)]
        ELSE IF ~Truthy(licenseKey)
        THEN Quiet(Returned(createFreeResult(Str(<<"No license key provided">>))), "NO_KEY")
        ELSE IF ~isValidLicenseKeyFormat(licenseKey)
        THEN Quiet(Returned(createFreeResult(Str(<<"Invalid license key format">>))),
                   "INVALID_FORMAT")
        ELSE IF ~Truthy(normalizedDomain)
        THEN Quiet(Returned(createFreeResult(Str(<<"Domain required for authorization">>))),
                   "NO_DOMAIN")
        ELSE IF built.threw
        THEN [ret |-> Thrown, branch |-> "REMOTE_CHECK", posts |-> 1,
              cache |-> cache, usage |-> usage]
        ELSE [ret |-> built, branch |-> "REMOTE_CHECK", posts |-> 1,
              cache |-> writeCache(cache, built.result, now, cacheOk),
              usage |-> trackUsage(usage, packageInfo, normalizedDomain, now, usageOk)]

\* One call of authorizeUsage({ licenseKey, domain }): what it returns, the branch
\* it took, the POST requests it sent and the stores it leaves.
authorizeUsage(licenseKey, domain, cache, usage, packageInfo, remote, now, cacheOk, usageOk) ==
    LET normalizedDomain == normalizeDomain(domain)
        cached == readCacheAuth(cache, now)
        apiResult == callAuthorizationApi(remote)
        built == BuildResult(apiResult, normalizedDomain, now)
        Quiet(ret, branch) == [ret |-> ret, branch |-> branch, posts |-> 0,
                               cache |-> cache, usage |-> usage]
    IN  IF ~Truthy(licenseKey)
        THEN Quiet(Returned(createFreeResult(Str(<<"No license key provided">>))), "NO_KEY")
        ELSE IF ~isValidLicenseKeyFormat(licenseKey)
        THEN Quiet(Returned(createFreeResult(Str(<<"Invalid license key format">>))),
                   "INVALID_FORMAT")
        ELSE IF cached.hit
        THEN [ret |-> Returned(WithFromCache(cached.result)), branch |-> "CACHE_HIT",
              posts |-> 0, cache |-> cache,
              usage |-> trackUsage(usage, packageInfo, normalizedDomain, now, usageOk)]
        ELSE IF ~Truthy(normalizedDomain)
        THEN Quiet(Returned(createFreeResult(Str(<<"Domain required for authorization">>))),
                   "NO_DOMAIN")
        ELSE IF built.threw
        THEN [ret |-> Thrown, branch |-> "REMOTE_CHECK", posts |-> 1,
              cache |-> cache, usage |-> usage]
        ELSE [ret |-> built, branch |-> "REMOTE_CHECK", posts |-> 1,
              cache |-> writeCache(cache, built.result, now, cacheOk),
              usage |-> trackUsage(usage, packageInfo, normalizedDomain, now, usageOk)]

(***************************************************************************)
(* validateLicense (license.js and license-browser.js)                     *)
(***************************************************************************)
\* "Transform API response to our format", the same in both variants
TransformResponse(data) ==
    [EmptyObject EXCEPT
        !.valid = Bool(IsTrue(data.valid) /\ IsTrue(data.domain_match)
                       /\ ~IsTrue(data.expired)),
        !.expired = Bool(IsTrue(data.expired)),
        !.domainMatch = Bool(IsTrue(data.domain_match)),
        !.tier = Or(data.tier, Str(free)),
        !.expiresAt = IF Truthy(data.expires_at) THEN NewDate(data.expires_at) ELSE Null,
        !.error = Or(data.error, Null),
        !.fromCache = Bool(FALSE)]

\* the message of the TypeError that data.valid raises when data is null
NullBodyMessage == "Cannot read properties of null (reading 'valid')"

\* mutant of callLicenseApiFile: every failure is reported as a network error
callLicenseApiFileOneTag(remote) ==
    CASE remote.kind \in {"transport", "unparsable"} \/ ~ResponseOk(remote.status) ->
            createFailOpenResult(Str(<<"Network error: ", remote.message>>))
      [] remote.body.shape = "null" ->
            createFailOpenResult(Str(<<"Network error: ", NullBodyMessage>>))
      [] OTHER -> TransformResponse(remote.body)

\* callLicenseApi of license.js
callLicenseApiFile(remote) ==
    CASE remote.kind = "transport" ->
            createFailOpenResult(Str(<<"Network error: ", remote.message>>))
      [] ~ResponseOk(remote.status) ->
            createFailOpenResult(Str(<<"API error - allowing free mode">>))
      [] remote.kind = "unparsable" ->
            createFailOpenResult(Str(<<"Network error: ", remote.message>>))
      [] remote.body.shape = "null" ->
            createFailOpenResult(Str(<<"Network error: ", NullBodyMessage>>))
      [] OTHER -> TransformResponse(remote.body)

\* callLicenseApi of license-browser.js
callLicenseApiBrowser(remote) ==
    CASE remote.kind = "transport" ->
            createFailOpenResult(Str(<<"Network error: ", remote.message>>))
      [] ~ResponseOk(remote.status) ->
            createFailOpenResult(Str(<<"API error: ", ToString(remote.status)>>))
      [] remote.kind = "unparsable" ->
            createFailOpenResult(Str(<<"Network error: ", remote.message>>))
      [] remote.body.shape = "null" ->
            createFailOpenResult(Str(<<"Network error: ", NullBodyMessage>>))
      [] OTHER -> TransformResponse(remote.body)

\* let cachedResult = null
NoMemory == [has |-> FALSE, r |-> EmptyObject]

\* mutant of Memory: the in-memory last result is the copy handed to the caller
MemoryOfReturned(result) == [has |-> TRUE, r |-> WithFromCache(result)]

\* cachedResult = result
Memory(result) == [has |-> TRUE, r |-> result]

\* "Check memory cache first": cachedResult && cachedResult.fromCache === true, and
\* Date.now() - new Date(cachedResult.timestamp || 0).getTime() < ttlMs; a result
\* object has no timestamp property
MemoryFresh(mem, now) ==
    /\ mem.has
    /\ IsTrue(mem.r.fromCache)
    /\ MinusLess(Num(now), getTime(NewDate(Or(Undef, Num(0)))), ttlMs)

\* One call of validateLicense({ licenseKey, domain }) of variant v
validateLicense(v, licenseKey, domain, cache, mem, remote, now, cacheOk) ==
    LET fileCache == IF v = "file" THEN readCacheFile(cache, now)
                     ELSE readCacheBrowser(cache, now)
        result == IF v = "file" THEN callLicenseApiFile(remote)
                  ELSE callLicenseApiBrowser(remote)
        Quiet(r, branch) == [ret |-> Returned(r), branch |-> branch, posts |-> 0,
                             cache |-> cache, mem |-> mem]
    IN  IF ~Truthy(licenseKey)
        THEN Quiet(createFailOpenResult(Str(<<"No license key provided">>)), "NO_KEY")
        ELSE IF ~isValidLicenseKeyFormat(licenseKey)
        THEN Quiet(createFailOpenResult(Str(<<"Invalid license key format">>)),
                   "INVALID_FORMAT")
        ELSE IF MemoryFresh(mem, now)
        THEN Quiet(WithFromCache(mem.r), "MEMORY_HIT")
        ELSE IF fileCache.hit
        THEN [ret |-> Returned(WithFromCache(fileCache.result)), branch |-> "CACHE_HIT",
              posts |-> 0, cache |-> cache, mem |-> Memory(fileCache.result)]
        ELSE IF ~Truthy(domain)
        THEN Quiet(createFailOpenResult(
                      Str(<<IF v = "file" THEN "Domain required"
                            ELSE "Domain required for validation">>)), "NO_DOMAIN")
        ELSE [ret |-> Returned(result), branch |-> "REMOTE_CHECK", posts |-> 1,
              cache |-> writeCache(cache, result, now, cacheOk), mem |-> Memory(result)]

(***************************************************************************)
(* Derived predicates                                                      *)
(***************************************************************************)
\* mutant of hasPaidFeatures: authResult.authorized is tested for truthiness
hasPaidFeaturesLoose(authResult) ==
    IF "t" \in DOMAIN authResult THEN FALSE
    ELSE authResult.tier \in PAID_TIERS /\ Truthy(authResult.authorized)

\* hasPaidFeatures(authResult) of the authorization module.  A primitive (a value
\* record with the tag t) is falsy or has no tier property; an object is read.
hasPaidFeatures(authResult) ==
    IF "t" \in DOMAIN authResult THEN FALSE
    ELSE authResult.tier \in PAID_TIERS /\ IsTrue(authResult.authorized)

\* hasPaidFeatures() of license.js and license-browser.js, on cachedResult
hasPaidFeaturesLegacy(mem) ==
    IF ~mem.has THEN FALSE ELSE mem.r.tier \in PAID_TIERS /\ Truthy(mem.r.valid)

\* isLicenseValid() of license.js and license-browser.js: cachedResult?.valid === true
isLicenseValid(mem) == mem.has /\ IsTrue(mem.r.valid)

\* `${v}` in a template literal: the characters v is interpolated as
ToText(v) ==
    CASE v.t = "string" -> v.s
      [] v.t = "number" /\ v.s = <<>> -> <<ToString(v.n)>>
      [] v.t = "boolean" -> <<IF v.n = 1 THEN "true" ELSE "false">>
      [] v.t \in {"undefined", "null"} -> <<v.t>>
      [] OTHER -> v.s

\* getLicenseStatusMessage(result) of license.js and license-browser.js; result is
\* a result object, or null (a value record) when no result is at hand
getLicenseStatusMessage(result) ==
    IF "t" \in DOMAIN result THEN Str(<<"License status unknown - using free mode">>)
    ELSE IF Truthy(result.valid)
    THEN Str(<<"License valid (">> \o ToText(result.tier) \o <<" tier)">>)
    ELSE IF Truthy(result.expired) THEN Str(<<"License expired - using free mode">>)
    ELSE IF ~Truthy(result.domainMatch)
    THEN Str(<<"License domain mismatch - using free mode">>)
    ELSE IF Truthy(result.error)
    THEN Str(<<"License validation failed: ">> \o ToText(result.error)
             \o <<" - using free mode">>)
    ELSE Str(<<"Invalid license - using free mode">>)

\* the formats --export is given, lower-cased by parseArgs; null without the option
ExportFormats == {Null, Str(<<"terminal">>), Str(<<"json">>), Str(<<"html">>),
                  Str(<<"pdf">>), Str(<<"csv">>)}

\* no export result
NoExport == [type |-> "none", error |-> "", locked |-> FALSE, generators |-> {}]

\* isProOrHigher(authResult)
isProOrHigher(authResult) == hasPaidFeatures(authResult)

\* mutant of exportReport: the JSON export is not gated
exportReportOpenJson(format, authResult, pdfOk) ==
    CASE format = Str(<<"pdf">>) ->
            IF ~isProOrHigher(authResult)
            THEN [NoExport EXCEPT !.error = "PDF audit report requires a PRO license",
                                  !.locked = TRUE]
            ELSE IF pdfOk
            THEN [NoExport EXCEPT !.type = "pdf", !.generators = {"generateAuditPdf"}]
            ELSE [NoExport EXCEPT !.error = "EACCES", !.generators = {"generateAuditPdf"}]
      [] format = Str(<<"json">>) -> [NoExport EXCEPT !.type = "json"]
      [] format = Str(<<"html">>) ->
            IF ~hasPaidFeatures(authResult)
            THEN [NoExport EXCEPT !.error = "License required to export HTML reports",
                                  !.locked = TRUE]
            ELSE [NoExport EXCEPT !.type = "html", !.generators = {"generateHtmlAuditReport"}]
      [] OTHER -> [NoExport EXCEPT !.error = "Unsupported format"]

\* exportReport(scanResult, format, domain, authResult): what it resolves to and
\* the report generators it called; pdfOk is whether generateAuditPdf could write
exportReport(format, authResult, pdfOk) ==
    CASE format = Str(<<"pdf">>) ->
            IF ~isProOrHigher(authResult)
            THEN [NoExport EXCEPT !.error = "PDF audit report requires a PRO license",
                                  !.locked = TRUE]
            ELSE IF pdfOk
            THEN [NoExport EXCEPT !.type = "pdf", !.generators = {"generateAuditPdf"}]
            ELSE [NoExport EXCEPT !.error = "EACCES", !.generators = {"generateAuditPdf"}]
      [] format \in {Str(<<"html">>), Str(<<"json">>)} ->
            IF ~hasPaidFeatures(authResult)
            THEN [NoExport EXCEPT
                    !.error = IF format = Str(<<"json">>)
                              THEN "License required to export JSON reports"
                              ELSE "License required to export HTML reports",
                    !.locked = TRUE]
            ELSE IF format = Str(<<"json">>) THEN [NoExport EXCEPT !.type = "json"]
            ELSE [NoExport EXCEPT !.type = "html", !.generators = {"generateHtmlAuditReport"}]
      [] OTHER -> [NoExport EXCEPT !.error = "Unsupported format"]

(***************************************************************************)
(* Inputs and bounds                                                       *)
(***************************************************************************)
\* clock ticks a behaviour may take
MaxTicks == 3

\* use entries a behaviour may record
MaxUses == 2

\* the clock advances by half a TTL, so that ages of 12h, 24h and 36h occur
TickMs == ttlMs \div 2

\* the process starts well after the epoch
StartMs == 10 * ttlMs

uuidKey == <<"1","2","3","e","4","5","6","7","-","E","8","9","b","-","1","2","d","3","-",
             "a","4","5","6","-","4","2","6","6","1","4","1","7","4","0","0","0">>

simpleKey == <<"A","B","C","D","1","2","3","4","e","f","g","h","5","6","7","8">>

shortKey == <<"s","h","o","r","t">>

LicenseKeys == {Undef, Null, Str(<<>>), Str(shortKey), Str(uuidKey), Str(simpleKey)}

exampleCom == <<"e","x","a","m","p","l","e",".","c","o","m">>

exampleUrl == <<"H","T","T","P","S",":","/","/","E","x","a","m","p","l","e",".","C","O","M",
                "/","p","a","t","h">>

DomainInputs == {Undef, Str(exampleCom), Str(exampleUrl), Str(<<"/">>)}

\* expires_at of a response: 18 hours after the start of the process
ExpiresAt == toISOString(StartMs + ttlMs - (TickMs \div 2))

Body(valid, domain_match, expired, authorized, tier, expires_at, error) ==
    [shape |-> "object", valid |-> valid, expired |-> expired,
     domain_match |-> domain_match, authorized |-> authorized, tier |-> tier,
     expires_at |-> expires_at, error |-> error]

Booleans == {Bool(TRUE), Bool(FALSE)}

\* every combination of the flags the entitlement decision reads
GateBodies ==
    {Body(v, d, e, a, Str(pro), Undef, Undef) :
        v \in Booleans, d \in Booleans, e \in Booleans, a \in {Bool(TRUE), Undef}}

\* a granting response with no tier, another tier, or a tier that is no string
TierBodies ==
    {Body(Bool(TRUE), Bool(TRUE), Bool(FALSE), a, t, Undef, Undef) :
        a \in {Bool(TRUE), Undef}, t \in {Undef, Str(enterprise), Num(5)}}

\* responses that carry an expiry or an error
ExtraBodies ==
    {Body(Bool(TRUE), Bool(TRUE), Bool(FALSE), Bool(TRUE), Str(pro), ExpiresAt, Undef),
     Body(Bool(TRUE), Bool(TRUE), Bool(FALSE), Bool(TRUE), Str(pro), Undef,
          Str(<<"license revoked">>)),
     Body(Bool(FALSE), Bool(FALSE), Bool(FALSE), Bool(FALSE), Undef, Undef,
          Str(<<"license revoked">>))}

ObjectBodies == GateBodies \cup TierBodies \cup ExtraBodies

NullBody == [NoBody EXCEPT !.shape = "null"]

NumberBody == [NoBody EXCEPT !.shape = "number"]

NoRemote == [kind |-> "none", status |-> 0, message |-> "", body |-> NoBody]

Transport(message) == [NoRemote EXCEPT !.kind = "transport", !.message = message]

Unparsable(status) ==
    [NoRemote EXCEPT !.kind = "unparsable", !.status = status,
                     !.message = "Unexpected token < in JSON at position 0"]

Json(status, body) == [NoRemote EXCEPT !.kind = "json", !.status = status, !.body = body]

\* the body that grants everything
GrantBody == Body(Bool(TRUE), Bool(TRUE), Bool(FALSE), Bool(TRUE), Str(pro), Undef, Undef)

Remotes ==
    {Transport("fetch failed"), Unparsable(200), Unparsable(500), Json(500, GrantBody)}
    \cup {Json(200, b) : b \in ObjectBodies \cup {NullBody, NumberBody}}

\* the response of scenario C: {valid:true, domain_match:true, expired:false, tier:"pro"}
ScenarioC == Json(200, Body(Bool(TRUE), Bool(TRUE), Bool(FALSE), Undef, Str(pro), Undef, Undef))

Variants == {"authorization", "file", "browser"}

PackageInfos ==
    {NoPackage, [has |-> TRUE, name |-> Str(<<"accessibility-tool">>),
                 version |-> Str(<<"1.0.4">>)]}

(***************************************************************************)
(* State                                                                   *)
(***************************************************************************)
VARIABLES
    variant,      \* the module this process runs
    writable,     \* whether the store (cache directory, localStorage) accepts writes
    now,          \* Date.now()
    cache,        \* the persisted cache record (file or localStorage item)
    cachedResult, \* the in-memory last result of the validateLicense variants
    usage,        \* the persisted usage record (authorization module)
    packageInfo,  \* getPackageInfo(): package.json next to the cache
    last,         \* the call that has just ended: inputs, remote outcome, return
    fn,           \* the helper function applied on its own ("none" in a process run)
    arg,          \* the argument the helper is applied to
    outs,         \* what the applications of the helper have produced, in order
    cli,          \* the command-line run: its options, its position in main, its output
    toolbar,      \* the mounted toolbar component: A1S_STATE and what it did to the page
    race          \* two calls under way at once: where each stands and what it holds

vars == <<variant, writable, now, cache, cachedResult, usage, packageInfo, last,
          fn, arg, outs, cli, toolbar, race>>

\* what no exported operation changes
env == <<variant, writable, packageInfo, fn, arg, outs, cli, toolbar, race>>

\* the state of the licensing modules
licensing == <<variant, writable, now, cache, cachedResult, usage, packageInfo, last>>

\* no command-line run in this process
NoCli == [pc |-> "none"]

\* the component is not mounted
NoToolbar == [mounted |-> FALSE]

\* no calls under way at once
NoRace == [mode |-> "none"]

Idle == [op |-> "none", licenseKey |-> Undef, domain |-> Undef, remote |-> NoRemote,
         ret |-> Returned(EmptyObject), branch |-> "NONE", posts |-> 0]

Init ==
    /\ variant \in Variants
    /\ writable \in BOOLEAN
    /\ now = StartMs
    /\ cache \in {NoFile, CorruptFile}
    /\ cachedResult = NoMemory
    /\ usage \in IF variant = "authorization" THEN {NoUsage, CorruptUsage} ELSE {NoUsage}
    /\ packageInfo \in IF variant = "authorization" THEN PackageInfos ELSE {NoPackage}
    /\ last = Idle
    /\ fn = "none"
    /\ arg = Undef
    /\ outs = <<>>
    /\ cli = NoCli
    /\ toolbar = NoToolbar
    /\ race = NoRace

\* the record of a call; the remote outcome is recorded when a request was sent
Call(op, licenseKey, domain, remote, out) ==
    [op |-> op, licenseKey |-> licenseKey, domain |-> domain,
     remote |-> IF out.posts > 0 THEN remote ELSE NoRemote,
     ret |-> out.ret, branch |-> out.branch, posts |-> out.posts]

\* the outcomes the endpoint can produce for a call: none when no request is sent
Outcomes(posts) == IF posts > 0 THEN Remotes ELSE {NoRemote}

\* time passes between two calls
Tick ==
    /\ last = Idle
    /\ now < StartMs + MaxTicks * TickMs
    /\ now' = now + TickMs
    /\ UNCHANGED <<env, cache, cachedResult, usage, last>>

\* the caller takes the outcome of the call that has ended and goes on
CallerResumes ==
    /\ last # Idle
    /\ last.branch # "AWAIT_FETCH"
    /\ last' = Idle
    /\ UNCHANGED <<env, now, cache, cachedResult, usage>>

\* await authorizeUsage({ licenseKey, domain })
AuthorizeUsage ==
    /\ last = Idle
    /\ variant = "authorization"
    /\ Len(usage.uses) < MaxUses
    /\ \E licenseKey \in LicenseKeys, domain \in DomainInputs :
          \E remote \in Outcomes(authorizeUsage(licenseKey, domain, cache, usage,
                                 packageInfo, NoRemote, now, writable, writable).posts) :
             \E out \in {authorizeUsage(licenseKey, domain, cache, usage, packageInfo,
                                         remote, now, writable, writable)} :
                 /\ cache' = out.cache
                 /\ usage' = out.usage
                 /\ last' = Call("authorizeUsage", licenseKey, domain, remote, out)
    /\ UNCHANGED <<env, now, cachedResult>>

\* await validateLicense({ licenseKey, domain })
ValidateLicense ==
    /\ last = Idle
    /\ variant \in {"file", "browser"}
    /\ \E licenseKey \in LicenseKeys, domain \in DomainInputs :
          \E remote \in Outcomes(validateLicense(variant, licenseKey, domain, cache,
                                 cachedResult, NoRemote, now, writable).posts) :
             \E out \in {validateLicense(variant, licenseKey, domain, cache,
                                          cachedResult, remote, now, writable)} :
                 /\ cache' = out.cache
                 /\ cachedResult' = out.mem
                 /\ last' = Call("validateLicense", licenseKey, domain, remote, out)
    /\ UNCHANGED <<env, now, usage>>

\* clearAuthCache(): "{}" over each file that exists; a failed write ends the try
ClearAuthCache ==
    /\ last = Idle
    /\ variant = "authorization"
    /\ cache' = IF cache.kind # "absent" /\ writable THEN EmptyFile ELSE cache
    /\ usage' = IF usage.kind # "absent" /\ writable THEN EmptyUsage ELSE usage
    /\ last' = [Idle EXCEPT !.op = "clearAuthCache"]
    /\ UNCHANGED <<env, now, cachedResult>>

\* clearLicenseCache() of license.js: the file is left to expire
ClearLicenseCacheFile ==
    /\ last = Idle
    /\ variant = "file"
    /\ cachedResult' = NoMemory
    /\ last' = [Idle EXCEPT !.op = "clearLicenseCache"]
    /\ UNCHANGED <<env, now, cache, usage>>

\* clearLicenseCache() of license-browser.js: BrowserStorage.remove(CACHE_KEY)
ClearLicenseCacheBrowser ==
    /\ last = Idle
    /\ variant = "browser"
    /\ cachedResult' = NoMemory
    /\ cache' = IF writable THEN NoFile ELSE cache
    /\ last' = [Idle EXCEPT !.op = "clearLicenseCache"]
    /\ UNCHANGED <<env, now, usage>>

Next ==
    \/ Tick
    \/ CallerResumes
    \/ AuthorizeUsage
    \/ ValidateLicense
    \/ ClearAuthCache
    \/ ClearLicenseCacheFile
    \/ ClearLicenseCacheBrowser

Spec == Init /\ [][Next]_vars

(***************************************************************************)
(* The helper functions on their own.  A behaviour of HelperSpec picks one *)
(* helper and one argument and applies the helper; normalizeDomain is      *)
(* applied a second time to its own result.                                *)
(***************************************************************************)
\* tokens a domain argument is put together from, at most
MaxTokens == 3

\* characters a license key is varied with
KeyChars == {"-", "g", "F", "0", "_", " ", "\n"}

\* cs with its i-th character replaced by c
Replace(cs, i, c) == [cs EXCEPT ![i] = c]

\* license keys around the two accepted formats: one character replaced, cut
\* short, extended at either end, other letter case, hyphens replaced
KeyStrings ==
    {uuidKey, simpleKey, shortKey, <<>>, toUpperCase(uuidKey), toLowerCase(simpleKey),
     [i \in DOMAIN uuidKey |-> IF uuidKey[i] = "-" THEN "0" ELSE uuidKey[i]]}
    \cup {Replace(uuidKey, i, c) : i \in DOMAIN uuidKey, c \in KeyChars}
    \cup {Replace(simpleKey, i, c) : i \in DOMAIN simpleKey, c \in KeyChars}
    \cup {SubSeq(simpleKey, 1, k) : k \in 1..Len(simpleKey)}
    \cup {SubSeq(uuidKey, 1, k) : k \in 1..Len(uuidKey)}
    \cup {k \o <<c>> : k \in {uuidKey, simpleKey}, c \in KeyChars}
    \cup {<<c>> \o k : k \in {uuidKey, simpleKey}, c \in KeyChars}

\* values that are no strings
NonStrings == {Undef, Null, Bool(TRUE), Bool(FALSE), Num(0), Num(5), NaN}

KeyArguments == {Str(cs) : cs \in KeyStrings} \cup NonStrings

DomainTokens ==
    {<<"h","t","t","p",":","/","/">>, <<"H","T","T","P","S",":","/","/">>,
     <<"E","x","a","m","p","l","e",".","C","O","M">>, <<"/","p","a","t","h">>,
     <<"/">>, <<" ">>}

\* the strings of at most k tokens
RECURSIVE TokenStrings(_)
TokenStrings(k) ==
    IF k = 0 THEN {<<>>}
    ELSE LET shorter == TokenStrings(k - 1)
         IN  shorter \cup {cs \o t : cs \in shorter, t \in DomainTokens}

DomainArguments == {Str(cs) : cs \in TokenStrings(MaxTokens)} \cup NonStrings

\* objects handed to hasPaidFeatures: every combination of tier, authorized, valid
\* and error, and the results of createFreeResult
AuthResults ==
    {[EmptyObject EXCEPT !.tier = t, !.authorized = a, !.valid = v, !.error = e] :
        t \in {Undef, Null, Str(free), Str(pro), Str(enterprise), Str(<<"P","R","O">>)},
        a \in {Undef, Bool(TRUE), Bool(FALSE), Str(<<"true">>), Num(1)},
        v \in Booleans,
        e \in {Undef, Str(<<"license revoked">>)}}
    \cup {createFreeResult(Str(<<reason>>)) :
            reason \in {"No license key provided", "Invalid license key format",
                        "Domain required for authorization", "Authorization failed"}}

Helpers == {"isValidLicenseKeyFormat", "normalizeDomain", "hasPaidFeatures", "exportReport"}

\* the arguments helper f is applied to
Arguments(f) ==
    CASE f = "isValidLicenseKeyFormat" -> KeyArguments
      [] f = "normalizeDomain" -> DomainArguments
      [] f = "exportReport" ->
            {[format |-> format, authResult |-> a] :
                format \in ExportFormats \ {Null}, a \in AuthResults \cup NonStrings}
      [] OTHER -> AuthResults \cup NonStrings

HelperInit ==
    /\ variant = "authorization"
    /\ writable = TRUE
    /\ now = StartMs
    /\ cache = NoFile
    /\ cachedResult = NoMemory
    /\ usage = NoUsage
    /\ packageInfo = NoPackage
    /\ last = Idle
    /\ \E f \in Helpers : fn = f /\ arg \in Arguments(f)
    /\ outs = <<>>
    /\ cli = NoCli
    /\ toolbar = NoToolbar
    /\ race = NoRace

\* what a helper application leaves alone
process == <<licensing, cli, toolbar, race>>

\* isValidLicenseKeyFormat(arg)
IsValidLicenseKeyFormat ==
    /\ fn = "isValidLicenseKeyFormat"
    /\ outs = <<>>
    /\ outs' = <<Bool(isValidLicenseKeyFormat(arg))>>
    /\ UNCHANGED <<process, fn, arg>>

\* normalizeDomain(arg), then normalizeDomain of that result
NormalizeDomain ==
    /\ fn = "normalizeDomain"
    /\ Len(outs) < 2
    /\ outs' = Append(outs, normalizeDomain(IF outs = <<>> THEN arg ELSE outs[1]))
    /\ UNCHANGED <<process, fn, arg>>

\* hasPaidFeatures(arg)
HasPaidFeatures ==
    /\ fn = "hasPaidFeatures"
    /\ outs = <<>>
    /\ outs' = <<Bool(hasPaidFeatures(arg))>>
    /\ UNCHANGED <<process, fn, arg>>

\* await exportReport(scanResult, arg.format, domain, arg.authResult)
ExportReport ==
    /\ fn = "exportReport"
    /\ outs = <<>>
    /\ \E pdfOk \in BOOLEAN : outs' = <<exportReport(arg.format, arg.authResult, pdfOk)>>
    /\ UNCHANGED <<process, fn, arg>>

HelperNext ==
    \/ IsValidLicenseKeyFormat
    \/ NormalizeDomain
    \/ HasPaidFeatures
    \/ ExportReport

HelperSpec == HelperInit /\ [][HelperNext]_vars

(***************************************************************************)
(* Usage tracking on its own.  A behaviour of UsageSpec calls trackUsage   *)
(* again and again, one millisecond apart, as the calls of authorizeUsage  *)
(* that reach it do; outs is the list of the entries that were persisted.  *)
(***************************************************************************)
\* calls of trackUsage in one behaviour
MaxRecords == 102

\* the entry trackUsage pushes
UseEntry(domain, t) == [timestamp |-> toISOString(t), domain |-> normalizeDomain(domain)]

UsageInit ==
    /\ variant = "authorization"
    /\ writable \in BOOLEAN
    /\ now = StartMs
    /\ cache = NoFile
    /\ cachedResult = NoMemory
    /\ usage \in {NoUsage, CorruptUsage, EmptyUsage}
    /\ packageInfo \in PackageInfos
    /\ last = Idle
    /\ fn = "trackUsage"
    /\ arg \in {Null, Str(exampleCom)}
    /\ outs = <<>>
    /\ cli = NoCli
    /\ toolbar = NoToolbar
    /\ race = NoRace

\* trackUsage(packageInfo, normalizedDomain)
TrackUsage ==
    /\ fn = "trackUsage"
    /\ now < StartMs + MaxRecords
    /\ \E next \in {trackUsage(usage, packageInfo, arg, now, writable)} :
          /\ usage' = next
          /\ outs' = IF next # usage THEN Append(outs, UseEntry(arg, now)) ELSE outs
    /\ now' = now + 1
    /\ UNCHANGED <<variant, writable, cache, cachedResult, packageInfo, last, fn, arg,
                   cli, toolbar, race>>

UsageNext == TrackUsage

UsageSpec == UsageInit /\ [][UsageNext]_vars

(***************************************************************************)
(* The call split at its only suspension point, `await fetch(...)`.  In    *)
(* FetchSpec a call runs up to the await (CallBegins), and goes on when    *)
(* the promise of fetch settles.  The code passes fetch no signal and sets *)
(* no timer: when the endpoint stays silent the promise settles only if    *)
(* the runtime gives the request up by itself (FetchTimesOut), which no    *)
(* line of the code brings about.                                          *)
(***************************************************************************)
\* the endpoint never answers
Silent == [NoRemote EXCEPT !.kind = "silent"]

\* fetch rejected by the runtime after its own timeout
TimedOut == Transport("The operation was aborted due to timeout")

\* what the request of a suspended call may come to
FetchOutcomes ==
    {Silent, Transport("fetch failed"), Unparsable(200), Unparsable(500),
     Json(500, GrantBody), Json(200, GrantBody), Json(200, NullBody), ScenarioC}

\* one call of the variant's entry point, in the shape of both
RunCall(v, licenseKey, domain, remote) ==
    IF v = "authorization"
    THEN LET o == authorizeUsage(licenseKey, domain, cache, usage, packageInfo, remote,
                                 now, writable, writable)
         IN  [ret |-> o.ret, branch |-> o.branch, posts |-> o.posts, cache |-> o.cache,
              usage |-> o.usage, mem |-> cachedResult]
    ELSE LET o == validateLicense(v, licenseKey, domain, cache, cachedResult, remote,
                                  now, writable)
         IN  [ret |-> o.ret, branch |-> o.branch, posts |-> o.posts, cache |-> o.cache,
              usage |-> usage, mem |-> o.mem]

EntryPoint(v) == IF v = "authorization" THEN "authorizeUsage" ELSE "validateLicense"

\* the call is suspended in `await fetch(...)`
Awaiting == last.branch = "AWAIT_FETCH"

\* the call runs to its return, or to the await when it sends the request
CallBegins ==
    /\ last = Idle
    /\ variant = "authorization" => Len(usage.uses) < MaxUses
    /\ \E licenseKey \in LicenseKeys, domain \in DomainInputs :
          \E o \in {RunCall(variant, licenseKey, domain, NoRemote)} :
             IF o.posts = 0
             THEN /\ cache' = o.cache
                  /\ usage' = o.usage
                  /\ cachedResult' = o.mem
                  /\ last' = Call(EntryPoint(variant), licenseKey, domain, NoRemote, o)
             ELSE /\ \E remote \in FetchOutcomes :
                        last' = [op |-> EntryPoint(variant), licenseKey |-> licenseKey,
                                 domain |-> domain, remote |-> remote,
                                 ret |-> Returned(EmptyObject), branch |-> "AWAIT_FETCH",
                                 posts |-> 1]
                  /\ UNCHANGED <<cache, usage, cachedResult>>
    /\ UNCHANGED <<env, now>>

\* the awaited call goes on with the outcome of the request
Resume(remote) ==
    \E o \in {RunCall(variant, last.licenseKey, last.domain, remote)} :
        /\ cache' = o.cache
        /\ usage' = o.usage
        /\ cachedResult' = o.mem
        /\ last' = Call(last.op, last.licenseKey, last.domain, remote, o)
        /\ UNCHANGED <<env, now>>

\* the endpoint has answered (or the connection failed): the promise settles
FetchSettles ==
    /\ Awaiting
    /\ last.remote # Silent
    /\ Resume(last.remote)

\* the endpoint stays silent and the runtime gives the request up
FetchTimesOut ==
    /\ Awaiting
    /\ last.remote = Silent
    /\ Resume(TimedOut)

FetchNext ==
    \/ CallerResumes
    \/ CallBegins
    \/ FetchSettles
    \/ FetchTimesOut

\* the event loop runs the continuation of a settled promise, and the caller's
FetchSpec ==
    /\ Init
    /\ [][FetchNext]_vars
    /\ WF_vars(FetchSettles)
    /\ WF_vars(CallerResumes)

(***************************************************************************)
(* The toolbar component (AccessibilityTool.js).  A behaviour of            *)
(* ToolbarSpec mounts the component on a page and clicks its controls, one  *)
(* handler per step.  The page has three text elements that do not contain  *)
(* one another; inline font sizes are in tenths of a pixel.                 *)
(***************************************************************************)
\* clicks in one behaviour
MaxClicks == 6

Elements == {"p", "span", "h1"}

\* el.style.fontSize = ""
NoSize == -1

\* the element is not a key of A1S_ORIGINAL_FONT_SIZES
NotTracked == -1

\* the font size the style sheet gives the element, in px
SheetFontSize == [el \in Elements |-> CASE el = "span" -> 0 [] el = "h1" -> 24 [] OTHER -> 16]

\* the inline font size the author of the page gave the element, in tenths of px
AuthoredFontSize == [el \in Elements |-> IF el = "h1" THEN 320 ELSE NoSize]

\* the rendered font size of an element with that inline size, in tenths of px
Rendered(el, inline) == IF inline # NoSize THEN inline ELSE 10 * SheetFontSize[el]

\* parseFloat(getComputedStyle(el).fontSize), in px
ComputedFontSize(el, inline) == Rendered(el, inline) \div 10

\* base * (1 + A1S_STATE.zoom * 0.1) + "px", in tenths of px
Zoomed(base, zoom) == base * (10 + zoom)

ToggleClasses ==
    {"a1s_high-contrast", "a1s_invert-colors", "a1s_pause-animations",
     "a1s_dyslexia-fonts", "a1s_hide-images"}

AlignClasses == <<"a1s_align-left", "a1s_align-center", "a1s_align-right", "a1s_align-justify">>

SaturationClasses == <<"a1s_saturation-low", "a1s_saturation-high", "a1s_saturation-desaturate">>

CursorClasses == <<"a1s_cursor-medium", "a1s_cursor-large">>

\* 1.6 + A1S_STATE.lineHeight * 0.2 as the style takes it
LineHeights == <<"1.8", "2", "2.2", "2.4000000000000004">>

Spacings == <<"0.05em", "0.1em", "0.2em", "0.3em">>

Range1(seq) == {seq[i] : i \in DOMAIN seq}

NoStyle == [lineHeight |-> "", textAlign |-> "", letterSpacing |-> "", wordSpacing |-> "",
            cursor |-> ""]

\* the component after createAccessibilityToolbar(), with the pro prop a boolean
Mounted(proProp, speech) ==
    [mounted |-> TRUE, pro |-> proProp, speech |-> speech, clicks |-> 0, click |-> "none",
     lineHeight |-> 0, textAlign |-> 0, saturation |-> 0, cursor |-> 0, textSpacing |-> 0,
     zoom |-> 0, darkMode |-> Bool(FALSE), textToSpeech |-> Bool(FALSE),
     tooltip |-> Bool(FALSE),
     classes |-> {}, style |-> NoStyle, links |-> FALSE,
     fontSize |-> AuthoredFontSize,
     original |-> [el \in Elements |-> NotTracked],
     listeners |-> {}]

ToolbarInit ==
    /\ variant = "browser"
    /\ writable = TRUE
    /\ now = StartMs
    /\ cache = NoFile
    /\ cachedResult = NoMemory
    /\ usage = NoUsage
    /\ packageInfo = NoPackage
    /\ last = Idle
    /\ fn = "none"
    /\ arg = Undef
    /\ outs = <<>>
    /\ cli = NoCli
    /\ toolbar \in {Mounted(FALSE, TRUE), Mounted(TRUE, TRUE), Mounted(TRUE, FALSE)}
    /\ race = NoRace

\* the control's onclick runs handler h, which leaves the component as next
Click(h, next) ==
    /\ toolbar.clicks < MaxClicks
    /\ toolbar' = [next EXCEPT !.clicks = toolbar.clicks + 1, !.click = h]
    /\ UNCHANGED <<licensing, fn, arg, outs, cli, race>>

\* zoomIn(btn)
zoomIn(t) ==
    IF t.zoom >= 5 THEN t
    ELSE LET zoom == t.zoom + 1
             original == [el \in Elements |->
                             IF t.original[el] = NotTracked
                             THEN ComputedFontSize(el, t.fontSize[el]) ELSE t.original[el]]
         IN  [t EXCEPT !.zoom = zoom, !.original = original,
                       !.fontSize = [el \in Elements |-> Zoomed(original[el], zoom)]]

\* zoomOut(btn): an element whose base is missing or 0 is passed over (`!base`)
zoomOut(t) ==
    IF t.zoom <= 0 THEN t
    ELSE LET zoom == t.zoom - 1
             Skipped(el) == t.original[el] = NotTracked \/ t.original[el] = 0
         IN  [t EXCEPT
                !.zoom = zoom,
                !.fontSize = [el \in Elements |->
                                 IF Skipped(el) THEN t.fontSize[el]
                                 ELSE IF zoom = 0 THEN NoSize
                                 ELSE Zoomed(t.original[el], zoom)],
                !.original = [el \in Elements |->
                                 IF ~Skipped(el) /\ zoom = 0 THEN NotTracked
                                 ELSE t.original[el]]]

\* root.classList.toggle(c)
Toggle(classes, c) == IF c \in classes THEN classes \ {c} ELSE classes \cup {c}

\* toggleHighContrast, toggleInvertColors, toggleAnimations, toggleDyslexiaFont,
\* toggleImages: each toggles its own class on the root
toggleClass(t, c) == [t EXCEPT !.classes = Toggle(t.classes, c)]

adjustLineHeight(t) ==
    LET level == (t.lineHeight + 1) % 5
    IN  [t EXCEPT !.lineHeight = level,
                  !.style.lineHeight = IF level = 0 THEN "" ELSE LineHeights[level]]

\* toggleTextAlign and toggleSaturation: the level cycles, one class per level
Cycle(classes, names, level) ==
    (classes \ Range1(names)) \cup (IF level > 0 THEN {names[level]} ELSE {})

toggleTextAlign(t) ==
    LET level == (t.textAlign + 1) % 5
    IN  [t EXCEPT !.textAlign = level, !.classes = Cycle(t.classes, AlignClasses, level)]

toggleSaturation(t) ==
    LET level == (t.saturation + 1) % 4
    IN  [t EXCEPT !.saturation = level, !.classes = Cycle(t.classes, SaturationClasses, level)]

toggleCursor(t) ==
    LET level == (t.cursor + 1) % 3
    IN  [t EXCEPT !.cursor = level, !.classes = Cycle(t.classes, CursorClasses, level),
                  !.style.cursor = IF level = 0 THEN "" ELSE t.style.cursor]

adjustTextSpacing(t) ==
    LET level == IF t.textSpacing + 1 > 4 THEN 0 ELSE t.textSpacing + 1
        spacing == IF level = 0 THEN "" ELSE Spacings[level]
    IN  [t EXCEPT !.textSpacing = level, !.style.letterSpacing = spacing,
                  !.style.wordSpacing = spacing]

\* highlightLinks(btn): the button's active class is the state, the anchors follow
highlightLinks(t) == [t EXCEPT !.links = ~t.links]

\* toggleDarkMode(btn), the darkMode feature being on
toggleDarkMode(t) ==
    LET on == ~Truthy(t.darkMode)
    IN  [t EXCEPT !.darkMode = Bool(on),
                  !.classes = IF on THEN t.classes \cup {"a1s-dark-mode"}
                              ELSE t.classes \ {"a1s-dark-mode"}]

\* toggleTextToSpeech(btn): without speechSynthesis an alert and nothing else;
\* enableTextToSpeechHover adds a mouseenter listener to every text element that
\* has none, disableTextToSpeechHover removes those of ttsHoverElements
toggleTextToSpeech(t) ==
    IF ~t.speech THEN t
    ELSE LET on == ~Truthy(t.textToSpeech)
         IN  [t EXCEPT !.textToSpeech = Bool(on),
                       !.listeners = IF on THEN Elements ELSE {}]

\* resetAll(): every key of A1S_STATE is set to 0, darkMode to false; the test of
\* A1S_STATE.textToSpeech that guards disableTextToSpeechHover comes after that
resetAll(t) ==
    LET zeroed == [t EXCEPT
                      !.classes = {}, !.style = NoStyle, !.links = FALSE,
                      !.fontSize = [el \in Elements |-> NoSize],
                      !.original = [el \in Elements |-> NotTracked],
                      !.lineHeight = 0, !.textAlign = 0, !.saturation = 0, !.cursor = 0,
                      !.textSpacing = 0, !.zoom = 0, !.tooltip = Num(0),
                      !.darkMode = Bool(FALSE), !.textToSpeech = Num(0)]
    IN  IF Truthy(zeroed.textToSpeech)
        THEN [zeroed EXCEPT !.textToSpeech = Bool(FALSE), !.listeners = {}]
        ELSE zeroed

ZoomIn == Click("zoomIn", zoomIn(toolbar))

ZoomOut == Click("zoomOut", zoomOut(toolbar))

ToggleClass == \E c \in ToggleClasses : Click("toggleClass", toggleClass(toolbar, c))

AdjustLineHeight == Click("adjustLineHeight", adjustLineHeight(toolbar))

ToggleTextAlign == Click("toggleTextAlign", toggleTextAlign(toolbar))

ToggleSaturation == Click("toggleSaturation", toggleSaturation(toolbar))

ToggleCursor == Click("toggleCursor", toggleCursor(toolbar))

AdjustTextSpacing == Click("adjustTextSpacing", adjustTextSpacing(toolbar))

HighlightLinks == Click("highlightLinks", highlightLinks(toolbar))

\* the Dark Mode and Text-to-Speech buttons exist when the pro prop is true
ToggleDarkMode == toolbar.pro /\ Click("toggleDarkMode", toggleDarkMode(toolbar))

ToggleTextToSpeech == toolbar.pro /\ Click("toggleTextToSpeech", toggleTextToSpeech(toolbar))

ResetAll == Click("resetAll", resetAll(toolbar))

ToolbarNext ==
    \/ ZoomIn
    \/ ZoomOut
    \/ ToggleClass
    \/ AdjustLineHeight
    \/ ToggleTextAlign
    \/ ToggleSaturation
    \/ ToggleCursor
    \/ AdjustTextSpacing
    \/ HighlightLinks
    \/ ToggleDarkMode
    \/ ToggleTextToSpeech
    \/ ResetAll

ToolbarSpec == ToolbarInit /\ [][ToolbarNext]_vars

(***************************************************************************)
(* The command-line scanner (main and what it calls).  A behaviour of       *)
(* CliSpec is a sequence of runs of the CLI over one cache directory; a run *)
(* goes from one `await` of main to the next.  The request of               *)
(* authorizeUsage is answered in every run of CliSpec; continuations of     *)
(* settled promises are run by the event loop.                              *)
(***************************************************************************)
\* runs of the CLI in one behaviour
MaxRuns == 2

\* what parseArgs returns; flag is the one of --help, --reset, --verbose given
Options(url, domain, format, flag) ==
    [url |-> url, domain |-> domain, export |-> format, flag |-> flag]

exampleScanUrl == Str(<<"https://example.com">>)

CliOptions ==
    {Options(exampleScanUrl, Str(exampleCom), Null, flag) : flag \in {"help", "reset"}}
    \cup {Options(Null, Str(exampleCom), Null, "none"),
          Options(exampleScanUrl, Null, Null, "none")}
    \cup {Options(exampleScanUrl, Str(exampleCom), format, flag) :
            format \in ExportFormats, flag \in {"none", "verbose"}}

\* process.env.ACCESS_LICENSE_KEY || null
EnvKeys == {Null, Str(simpleKey), Str(shortKey)}

\* what scanWebsite resolves to: eight issues, four of them errors
ScanResult == [totalIssues |-> 8, errors |-> 4, warnings |-> 4]

\* a run about to enter main
Run(options, licenseKey, runs) ==
    [pc |-> "main", options |-> options, licenseKey |-> licenseKey, runs |-> runs,
     outcome |-> "none", authResult |-> EmptyObject, scans |-> 0, compliance |-> "none",
     exportResult |-> NoExport, exitCode |-> 0]

\* the authResult of the catch block of main
FreeModeOnError ==
    [EmptyObject EXCEPT !.valid = Bool(FALSE), !.authorized = Bool(FALSE),
                        !.tier = Str(free),
                        !.message = Str(<<"Authorization error: ", NullBodyMessage>>)]

\* mutant of Settled: a rejected authorizeUsage ends main, which exits with 1
SettledNoCatch(c, ret) ==
    IF ret.threw THEN [c EXCEPT !.pc = "exit", !.exitCode = 1, !.outcome = "thrown"]
    ELSE [c EXCEPT !.pc = "status", !.outcome = "returned", !.authResult = ret.result]

\* try { authResult = await authorizeUsage(...) } catch { authResult = { ...free } }
Settled(c, ret) ==
    [c EXCEPT !.pc = "status",
              !.outcome = IF ret.threw THEN "thrown" ELSE "returned",
              !.authResult = IF ret.threw THEN FreeModeOnError ELSE ret.result]

\* the level printComplianceStatus computes from the error rate
Level(scanResult) ==
    CASE scanResult.errors = 0 -> "AAA"
      [] 5 * scanResult.errors < scanResult.totalIssues -> "AA"
      [] 2 * scanResult.errors < scanResult.totalIssues -> "A"
      [] OTHER -> "FAIL"

\* printComplianceStatus(scanResult, authResult): the level, or LOCKED
printComplianceStatus(scanResult, authResult) ==
    IF hasPaidFeatures(authResult) THEN Level(scanResult) ELSE "LOCKED"

CliInit ==
    /\ variant = "authorization"
    /\ writable \in BOOLEAN
    /\ now = StartMs
    /\ cache \in {NoFile, CorruptFile}
    /\ cachedResult = NoMemory
    /\ usage = NoUsage
    /\ packageInfo \in PackageInfos
    /\ last = Idle
    /\ fn = "none"
    /\ arg = Undef
    /\ outs = <<>>
    /\ \E options \in CliOptions, licenseKey \in EnvKeys : cli = Run(options, licenseKey, 1)
    /\ toolbar = NoToolbar
    /\ race = NoRace

\* what a step of main leaves alone
host == <<variant, writable, now, cachedResult, packageInfo, last, fn, arg, outs, toolbar,
          race>>

\* main up to its first await: --help, --reset and the required arguments
MainBegins ==
    /\ cli.pc = "main"
    /\ cli' = CASE cli.options.flag \in {"help", "reset"} -> [cli EXCEPT !.pc = "exit"]
                [] ~Truthy(cli.options.url) \/ ~Truthy(cli.options.domain) ->
                      [cli EXCEPT !.pc = "exit", !.exitCode = 1]
                [] OTHER -> [cli EXCEPT !.pc = "authorize"]
    /\ IF cli.options.flag = "reset"
       THEN /\ cache' = IF cache.kind # "absent" /\ writable THEN EmptyFile ELSE cache
            /\ usage' = IF usage.kind # "absent" /\ writable THEN EmptyUsage ELSE usage
       ELSE UNCHANGED <<cache, usage>>
    /\ UNCHANGED host

\* authorizeUsage({ licenseKey, domain }) settles
AuthorizeSettles ==
    /\ cli.pc = "authorize"
    /\ \E remote \in Outcomes(authorizeUsage(cli.licenseKey, cli.options.domain, cache, usage,
                              packageInfo, NoRemote, now, writable, writable).posts) :
          \E o \in {authorizeUsage(cli.licenseKey, cli.options.domain, cache, usage,
                                   packageInfo, remote, now, writable, writable)} :
              /\ cache' = o.cache
              /\ usage' = o.usage
              /\ cli' = Settled(cli, o.ret)
    /\ UNCHANGED host

\* the status lines are printed and scanWebsite is called
ScanBegins ==
    /\ cli.pc = "status"
    /\ cli' = [cli EXCEPT !.pc = "scanning", !.scans = cli.scans + 1]
    /\ UNCHANGED <<host, cache, usage>>

\* scanWebsite resolves: results and compliance status are printed; without an
\* export the summary is printed and main ends
ScanSettles ==
    /\ cli.pc = "scanning"
    /\ cli' = [cli EXCEPT
                 !.compliance = printComplianceStatus(ScanResult, cli.authResult),
                 !.pc = IF Truthy(cli.options.export)
                           /\ cli.options.export # Str(<<"terminal">>)
                        THEN "exporting" ELSE "done"]
    /\ UNCHANGED <<host, cache, usage>>

\* exportReport resolves: its result and the summary are printed and main ends
ExportSettles ==
    /\ cli.pc = "exporting"
    /\ \E pdfOk \in BOOLEAN :
          cli' = [cli EXCEPT !.exportResult = exportReport(cli.options.export,
                                                           cli.authResult, pdfOk),
                             !.pc = "done"]
    /\ UNCHANGED <<host, cache, usage>>

\* the CLI is started again over the same cache directory
NextRun ==
    /\ cli.pc \in {"done", "exit"}
    /\ cli.runs < MaxRuns
    /\ \E options \in CliOptions, licenseKey \in EnvKeys :
          cli' = Run(options, licenseKey, cli.runs + 1)
    /\ UNCHANGED <<host, cache, usage>>

CliNext ==
    \/ MainBegins
    \/ AuthorizeSettles
    \/ ScanBegins
    \/ ScanSettles
    \/ ExportSettles
    \/ NextRun

\* the event loop runs the continuations of main
CliSpec ==
    /\ CliInit
    /\ [][CliNext]_vars
    /\ WF_vars(ScanBegins)
    /\ WF_vars(ScanSettles)
    /\ WF_vars(ExportSettles)

(***************************************************************************)
(* The cache store as the process finds it.  The cache file (or the        *)
(* localStorage item) is read by every call and may hold anything: a       *)
(* behaviour of StoreSpec starts with a record that another program, an    *)
(* older version or an editor left there, and makes calls.                 *)
(***************************************************************************)
\* a result as a remote check one hour ago would have stored it
StoredGrant ==
    JsonRoundTrip([EmptyObject EXCEPT !.valid = Bool(TRUE), !.authorized = Bool(TRUE),
                                      !.tier = Str(pro), !.expiresAt = Null,
                                      !.domain = Str(exampleCom), !.fromCache = Bool(FALSE)])

OneHourMs == 60 * 60 * 1000

\* the JSON objects found in the store: with and without a timestamp, with a
\* timestamp that is no date, with a result that is an object without properties
\* (a number or true in its place spreads to the same), with a result without tier
FoundRecords ==
    {[kind |-> "json", timestamp |-> t, hasResult |-> TRUE, result |-> r] :
        t \in {Undef, Null, Str(<<"yesterday">>), toISOString(StartMs - OneHourMs)},
        r \in {StoredGrant, EmptyObject, [StoredGrant EXCEPT !.tier = Undef]}}

StoreInit ==
    /\ variant \in Variants
    /\ writable \in BOOLEAN
    /\ now = StartMs
    /\ cache \in {NoFile, CorruptFile, EmptyFile} \cup FoundRecords
    /\ cachedResult = NoMemory
    /\ usage = NoUsage
    /\ packageInfo = NoPackage
    /\ last = Idle
    /\ fn = "none"
    /\ arg = Undef
    /\ outs = <<>>
    /\ cli = NoCli
    /\ toolbar = NoToolbar
    /\ race = NoRace

StoreNext ==
    \/ CallerResumes
    \/ AuthorizeUsage
    \/ ValidateLicense

StoreSpec == StoreInit /\ [][StoreNext]_vars

(***************************************************************************)
(* Two calls under way at once.  A behaviour of RaceSpec starts two calls  *)
(* with the same key and domain over an empty cache directory, in one      *)
(* process (the second call starts while the first is suspended in its     *)
(* await) or in two processes of the authorization module that share the   *)
(* directory.  In one process the code between two awaits runs to its end  *)
(* before anything else runs; two processes interleave at every file       *)
(* operation.  writeFileSync(path, text) opens the file with truncation    *)
(* and then writes the text from offset 0: two operations of the system.   *)
(***************************************************************************)
Callers == {1, 2}

Other(p) == 3 - p

\* a call that has not started
NoCall ==
    [pc |-> "start", licenseKey |-> Undef, domain |-> Undef, remote |-> NoRemote,
     ret |-> Returned(EmptyObject), branch |-> "NONE", posts |-> 0, read |-> NoUsage,
     afterClear |-> FALSE]

\* two calls to come, both with the same key and domain
Racing(mode, licenseKey, domain) ==
    [mode |-> mode, cleared |-> FALSE, suspended |-> {},
     calls |-> [p \in Callers |->
                  [NoCall EXCEPT !.licenseKey = licenseKey, !.domain = domain]]]

\* what the request of a racing call may come to
RaceOutcomes == {Json(200, GrantBody), Transport("fetch failed"), Json(200, NullBody)}

RaceInit ==
    /\ variant \in Variants
    /\ writable \in BOOLEAN
    /\ now = StartMs
    /\ cache = NoFile
    /\ cachedResult = NoMemory
    /\ usage = NoUsage
    /\ packageInfo = NoPackage
    /\ last = Idle
    /\ fn = "none"
    /\ arg = Undef
    /\ outs = <<>>
    /\ cli = NoCli
    /\ toolbar = NoToolbar
    /\ race \in {Racing(mode, Str(simpleKey), Str(exampleCom)) :
                    mode \in IF variant = "authorization" THEN {"process", "processes"}
                             ELSE {"process"}}

\* what a racing call leaves alone
bystanders == <<variant, writable, now, packageInfo, last, fn, arg, outs, cli, toolbar>>

\* the call is between two file operations of one synchronous stretch of code
MidStretch(c) == c.pc \in {"write", "writing", "track", "tracking"}

\* call p may take a step: in one process, only when the other call is suspended,
\* has returned or has not started
Turn(p) == race.mode = "processes" \/ ~MidStretch(race.calls[Other(p)])

\* call p goes on as c
Goes(p, c) == race' = [race EXCEPT !.calls[p] = c]

\* the position after writeCache: trackUsage in authorizeUsage, the return otherwise
AfterWrite == IF variant = "authorization" THEN "track" ELSE "done"

\* the call runs from its entry to its return, to `await fetch`, or, on a cache
\* hit of authorizeUsage, to trackUsage
CallStarts(p) ==
    LET c == race.calls[p]
    IN  /\ c.pc = "start"
        /\ Turn(p)
        /\ \E o \in {RunCall(variant, c.licenseKey, c.domain, NoRemote)} :
              IF o.posts = 1
              THEN /\ \E remote \in RaceOutcomes :
                        Goes(p, [c EXCEPT !.pc = "await", !.remote = remote, !.posts = 1,
                                          !.branch = "AWAIT_FETCH",
                                          !.afterClear = race.cleared])
                   /\ UNCHANGED cachedResult
              ELSE /\ Goes(p, [c EXCEPT !.pc = IF o.branch = "CACHE_HIT" THEN AfterWrite
                                               ELSE "done",
                                        !.ret = o.ret, !.branch = o.branch,
                                        !.afterClear = race.cleared])
                   /\ cachedResult' = o.mem
        /\ UNCHANGED <<bystanders, cache, usage>>

\* the promise of fetch settles: the result is built (and, in validateLicense,
\* assigned to cachedResult) and writeCache is about to be called
ResponseArrives(p) ==
    LET c == race.calls[p]
        built == BuildResult(callAuthorizationApi(c.remote), normalizeDomain(c.domain), now)
        result == IF variant = "file" THEN callLicenseApiFile(c.remote)
                  ELSE callLicenseApiBrowser(c.remote)
    IN  /\ c.pc = "await"
        /\ Turn(p)
        /\ IF variant = "authorization"
           THEN /\ Goes(p, [c EXCEPT !.pc = IF built.threw THEN "done" ELSE "write",
                                     !.ret = built, !.branch = "REMOTE_CHECK"])
                /\ UNCHANGED cachedResult
           ELSE /\ Goes(p, [c EXCEPT !.pc = "write", !.ret = Returned(result),
                                     !.branch = "REMOTE_CHECK"])
                /\ cachedResult' = Memory(result)
        /\ UNCHANGED <<bystanders, cache, usage>>

\* writeCache, first half: writeFileSync opens the cache file, which truncates it
\* to no text at all (a read at this moment finds nothing to parse);
\* localStorage.setItem stores the item in one operation
CacheFileOpens(p) ==
    LET c == race.calls[p]
    IN  /\ c.pc = "write"
        /\ Turn(p)
        /\ IF variant = "browser"
           THEN /\ cache' = writeCache(cache, c.ret.result, now, writable)
                /\ Goes(p, [c EXCEPT !.pc = "done"])
           ELSE IF writable
           THEN /\ cache' = CorruptFile
                /\ Goes(p, [c EXCEPT !.pc = "writing"])
           ELSE /\ cache' = cache
                /\ Goes(p, [c EXCEPT !.pc = AfterWrite])
        /\ UNCHANGED <<bystanders, cachedResult, usage>>

\* writeCache, second half: the text goes into the file from offset 0.  Over a
\* truncated file it is the whole content; over the record another process wrote
\* since the truncation it replaces that record when it is at least as long, and
\* leaves the record's tail behind its own text when it is shorter.  The lengths
\* of the texts are not modelled: over another record both outcomes are taken
CacheFileWritten(p) ==
    LET c == race.calls[p]
        mine == CacheData(c.ret.result, now)
    IN  /\ c.pc = "writing"
        /\ Turn(p)
        /\ cache' \in IF cache.kind = "json" /\ cache.hasResult /\ cache # mine
                      THEN {mine, CorruptFile}
                      ELSE {mine}
        /\ Goes(p, [c EXCEPT !.pc = AfterWrite])
        /\ UNCHANGED <<bystanders, cachedResult, usage>>

\* trackUsage, first half: readUsage()
UsageRead(p) ==
    LET c == race.calls[p]
    IN  /\ c.pc = "track"
        /\ Turn(p)
        /\ Goes(p, [c EXCEPT !.pc = "tracking", !.read = usage])
        /\ UNCHANGED <<bystanders, cache, cachedResult, usage>>

\* trackUsage, second half: the entry is pushed onto what was read and
\* writeUsage(usage) replaces the file
UsageWritten(p) ==
    LET c == race.calls[p]
        next == trackUsage(c.read, packageInfo, normalizeDomain(c.domain), now, writable)
    IN  /\ c.pc = "tracking"
        /\ Turn(p)
        /\ usage' = IF next = c.read THEN usage ELSE next
        /\ Goes(p, [c EXCEPT !.pc = "done"])
        /\ UNCHANGED <<bystanders, cache, cachedResult>>

\* clearAuthCache() or clearLicenseCache() is called, once, between the steps of
\* the calls; race.suspended keeps which calls were in their await at that moment
CacheCleared ==
    /\ ~race.cleared
    /\ race.mode = "processes" \/ \A p \in Callers : ~MidStretch(race.calls[p])
    /\ race' = [race EXCEPT !.cleared = TRUE,
                             !.suspended = {p \in Callers : race.calls[p].pc = "await"}]
    /\ cache' = CASE variant = "authorization" ->
                        IF cache.kind # "absent" /\ writable THEN EmptyFile ELSE cache
                  [] variant = "browser" -> IF writable THEN NoFile ELSE cache
                  [] OTHER -> cache
    /\ usage' = IF variant = "authorization" /\ usage.kind # "absent" /\ writable
                THEN EmptyUsage ELSE usage
    /\ cachedResult' = NoMemory
    /\ UNCHANGED bystanders

RaceNext ==
    \/ \E p \in Callers : CallStarts(p)
    \/ \E p \in Callers : ResponseArrives(p)
    \/ \E p \in Callers : CacheFileOpens(p)
    \/ \E p \in Callers : CacheFileWritten(p)
    \/ \E p \in Callers : UsageRead(p)
    \/ \E p \in Callers : UsageWritten(p)
    \/ CacheCleared

RaceSpec == RaceInit /\ [][RaceNext]_vars

(***************************************************************************)
(* Properties                                                              *)
(***************************************************************************)
Calls == {"authorizeUsage", "validateLicense"}

\* a call has just ended
CallEnded == last.op \in Calls

\* the object the call returned
R == last.ret.result

\* x != null
NonNull(v) == v.t \notin {"null", "undefined"}

\* the request ended in a transport failure, a non-2xx status or an unparsable body
RemoteFailed(remote) ==
    \/ remote.kind \in {"transport", "unparsable"}
    \/ remote.kind = "json" /\ ~ResponseOk(remote.status)

\* the request was answered 2xx with a JSON object
WellFormed(remote) ==
    remote.kind = "json" /\ ResponseOk(remote.status) /\ remote.body.shape = "object"

\* C1 (fail-open totality): whatever the inputs, the stores and the outcome of the
\* remote call, authorizeUsage resolves to an object carrying valid and tier and
\* never throws or rejects.
C1_FailOpenTotality ==
    last.op = "authorizeUsage" =>
        /\ ~last.ret.threw
        /\ R.valid.t = "boolean"
        /\ R.tier.t # "undefined"

\* C2: in the three variants a call whose request ends in a transport failure, a
\* non-2xx status or an unparsable body returns tier free and valid false (and
\* authorized false where the field exists), so hasPaidFeatures is false for it.
C2_FailureNeverEntitles ==
    (CallEnded /\ last.posts = 1 /\ RemoteFailed(last.remote)) =>
        /\ ~last.ret.threw
        /\ R.tier = Str(free)
        /\ R.valid = Bool(FALSE)
        /\ (variant = "authorization" => R.authorized = Bool(FALSE))
        /\ IF variant = "authorization" THEN ~hasPaidFeatures(R)
           ELSE ~hasPaidFeaturesLegacy(cachedResult)

\* C2 witness: a 500 response whose body grants everything has been handled
C2_Witness ==
    /\ CallEnded
    /\ last.remote = Json(500, GrantBody)
    /\ R.tier = Str(free)

\* C3: every returned result with a non-null error has tier free and is not
\* authorized (not valid in the variants without an authorized field).
C3_ErrorImpliesFree ==
    (CallEnded /\ ~last.ret.threw /\ NonNull(R.error)) =>
        /\ R.tier = Str(free)
        /\ IF variant = "authorization" THEN ~IsTrue(R.authorized) ELSE ~IsTrue(R.valid)

\* C4: for a 2xx response with a JSON object body, the valid field of the returned
\* result is response.valid AND response.domain_match AND NOT response.expired.
C4_ValidIsConjunction ==
    (CallEnded /\ last.posts = 1 /\ WellFormed(last.remote) /\ ~last.ret.threw) =>
        R.valid = Bool(/\ IsTrue(last.remote.body.valid)
                       /\ IsTrue(last.remote.body.domain_match)
                       /\ ~IsTrue(last.remote.body.expired))

\* C5: on a cache miss with a well-formed key and a domain, the response of
\* scenario C gives valid true, authorized true (valid, where the variant has no
\* authorized field), tier pro, fromCache false, and hasPaidFeatures true.
C5_ScenarioC ==
    (CallEnded /\ last.posts = 1 /\ last.remote = ScenarioC) =>
        /\ ~last.ret.threw
        /\ R.valid = Bool(TRUE)
        /\ R.tier = Str(pro)
        /\ R.fromCache = Bool(FALSE)
        /\ IF variant = "authorization"
           THEN R.authorized = Bool(TRUE) /\ hasPaidFeatures(R)
           ELSE hasPaidFeaturesLegacy(cachedResult)

\* a step that is one call of authorizeUsage or validateLicense
CallStep == last = Idle /\ last'.op \in Calls

\* the store holds a record with a result
Stored == cache.kind = "json" /\ cache.hasResult

\* the age of the stored record, written at cache.timestamp
Age == now - cache.timestamp.n

\* C6 (cache hit): a remote check with a store that takes the write persists its
\* result with timestamp T = now; and while a persisted record is younger than 24h,
\* every call with a well-formed key returns that record's tier with fromCache
\* true, sends no request and leaves the record in place.
C6_CacheHit ==
    [][/\ (CallStep /\ last'.branch = "REMOTE_CHECK" /\ ~last'.ret.threw /\ writable) =>
            /\ cache'.kind = "json" /\ cache'.hasResult
            /\ cache'.timestamp = toISOString(now)
            /\ cache'.result.tier = last'.ret.result.tier
       /\ (CallStep /\ Stored /\ Age < ttlMs /\ isValidLicenseKeyFormat(last'.licenseKey)) =>
            /\ ~last'.ret.threw
            /\ last'.ret.result.fromCache = Bool(TRUE)
            /\ last'.ret.result.tier = cache.result.tier
            /\ last'.posts = 0
            /\ cache' = cache]_vars

\* C6 witness: twelve hours after a pro result was persisted, a call was answered
\* from the cache
C6_Witness ==
    /\ CallEnded /\ last.branch = "CACHE_HIT"
    /\ Stored /\ Age = TickMs
    /\ R.tier = Str(pro) /\ R.fromCache = Bool(TRUE)

\* C7 (TTL boundary): the three readCache functions return the stored result while
\* now - T < 24h and report a miss from now - T = 24h on; a call that reads an
\* expired record and writes nothing leaves the record in the store.
C7_TtlBoundary ==
    /\ [](Stored =>
            \A read \in {readCacheAuth(cache, now), readCacheFile(cache, now),
                         readCacheBrowser(cache, now)} :
                /\ read.hit <=> Age < ttlMs
                /\ read.hit => read.result = cache.result)
    /\ [][(CallStep /\ Stored /\ Age >= ttlMs /\ last'.branch = "NO_DOMAIN") =>
            cache' = cache]_vars

\* C7 witness: a call read the record at the boundary instant, missed, and the
\* record is still stored
C7_Witness ==
    /\ CallEnded /\ last.branch = "NO_DOMAIN"
    /\ Stored /\ Age = ttlMs

\* C8 (FREE results are cached): a remote check that ends in a result that is not
\* valid writes that result to a store that takes the write; and while such a
\* record is younger than 24h a call with a well-formed key returns it with
\* fromCache true and sends no request.
C8_FreeResultsCached ==
    [][/\ (/\ CallStep /\ last'.branch = "REMOTE_CHECK" /\ ~last'.ret.threw
           /\ ~IsTrue(last'.ret.result.valid) /\ writable) =>
            cache' = CacheData(last'.ret.result, now)
       /\ (/\ CallStep /\ Stored /\ Age < ttlMs /\ ~IsTrue(cache.result.valid)
           /\ isValidLicenseKeyFormat(last'.licenseKey)) =>
            /\ last'.ret = Returned(WithFromCache(cache.result))
            /\ last'.posts = 0]_vars

\* C8 witness: the FREE result of a failed request, cached twelve hours ago, was
\* returned from the cache
C8_Witness ==
    /\ CallEnded /\ last.branch = "CACHE_HIT" /\ Age = TickMs
    /\ R.tier = Str(free) /\ NonNull(R.error) /\ R.fromCache = Bool(TRUE)

\* the request was answered with a non-success status
StatusFailed(remote) == remote.kind \in {"json", "unparsable"} /\ ~ResponseOk(remote.status)

C10_NoKey ==
    [][(CallStep /\ ~Truthy(last'.licenseKey)) =>
            /\ ~last'.ret.threw
            /\ last'.ret.result.valid = Bool(FALSE)
            /\ last'.ret.result.tier = Str(free)
            /\ last'.ret.result.error = Str(<<"No license key provided">>)
            /\ last'.posts = 0
            /\ cache' = cache]_vars

\* C10 witness: a call without a key ended while the cache held a fresh valid result
C10_Witness ==
    /\ CallEnded /\ last.licenseKey = Null
    /\ Stored /\ Age < ttlMs /\ IsTrue(cache.result.valid)
    /\ R.error = Str(<<"No license key provided">>)

\* a step that is one call of authorizeUsage or validateLicense without a key
NoKeyStep == CallStep /\ ~Truthy(last'.licenseKey)

\* the usage store can take one more entry: it is absent, unparsable or holds a
\* uses list, and the directory accepts the write
CanRecord == writable /\ (usage.kind # "json" \/ usage.hasUses)

\* C11 (as claimed): a call of authorizeUsage without a license key adds one use
\* entry to the persisted usage record; validateLicense (file and browser) writes
\* no usage on this branch.
C11_NoKeyTracksUsage ==
    [][NoKeyStep =>
          IF variant = "authorization"
          THEN CanRecord => Len(usage'.uses) = Len(usage.uses) + 1
          ELSE usage' = usage]_vars

\* the variant's own test for "no domain": authorizeUsage tests the normalized
\* domain, validateLicense the domain as given
NoDomain(v, domain) ==
    IF v = "authorization" THEN ~Truthy(normalizeDomain(domain)) ELSE ~Truthy(domain)

\* readCache() of variant v
ReadCache(v, c, t) ==
    CASE v = "authorization" -> readCacheAuth(c, t)
      [] v = "file" -> readCacheFile(c, t)
      [] OTHER -> readCacheBrowser(c, t)

\* C12 (remote-call count): a call sends at most one POST request, and none when
\* the key is missing, when the key is "short" or otherwise fails the format check,
\* when the cache read hits, or when there is no domain after a cache miss.
C12_RemoteCallCount ==
    [][CallStep =>
          /\ last'.posts \in {0, 1}
          /\ (\/ ~Truthy(last'.licenseKey)
              \/ last'.licenseKey = Str(shortKey)
              \/ last'.licenseKey.t # "string"
              \/ ~(uuidPattern(last'.licenseKey.s) \/ simplePattern(last'.licenseKey.s))
              \/ ReadCache(variant, cache, now).hit
              \/ NoDomain(variant, last'.domain)) => last'.posts = 0
          /\ last'.posts = 0 => last'.remote = NoRemote]_vars

\* C12 witness: the call of scenario B ("short", "example.com") ended on a cache
\* miss without a request
C12_Witness ==
    /\ CallEnded /\ last.licenseKey = Str(shortKey) /\ last.domain = Str(exampleCom)
    /\ ~ReadCache(variant, cache, now).hit
    /\ last.posts = 0 /\ R.error = Str(<<"Invalid license key format">>)

\* the helper f has been applied to arg
Applied(f) == fn = f /\ outs # <<>>

\* r is an object (not a primitive value)
IsObject(r) == "t" \notin DOMAIN r

\* C13 (tier gating): hasPaidFeatures(r) is true exactly when r is an object whose
\* tier is "pro" or "enterprise" and whose authorized is true; it is false for null
\* and undefined, for every object with tier "free", and for every result of
\* createFreeResult.
C13_TierGating ==
    Applied("hasPaidFeatures") =>
        /\ outs[1] = Bool(/\ IsObject(arg)
                          /\ arg.tier \in {Str(pro), Str(enterprise)}
                          /\ arg.authorized = Bool(TRUE))
        /\ arg \in {Null, Undef} => outs[1] = Bool(FALSE)
        /\ (IsObject(arg) /\ arg.tier = Str(free)) => outs[1] = Bool(FALSE)
        /\ (IsObject(arg) /\ arg = createFreeResult(arg.error)) => outs[1] = Bool(FALSE)

\* C13 witness: hasPaidFeatures was applied to an object with tier free that says
\* authorized and valid, and answered false
C13_Witness ==
    /\ Applied("hasPaidFeatures") /\ IsObject(arg)
    /\ arg.tier = Str(free) /\ arg.authorized = Bool(TRUE) /\ arg.valid = Bool(TRUE)
    /\ outs[1] = Bool(FALSE)

\* C14 (usage bounding): the persisted uses list never has more than
\* MAX_USAGE_ENTRIES (100) entries; once more than 100 uses have been recorded it
\* has exactly 100, and its entries are the most recent recorded ones in the order
\* they were recorded.
C14_UsageBounding ==
    fn = "trackUsage" =>
        LET kept == Len(usage.uses)
            recorded == Len(outs)
        IN  /\ kept <= MAX_USAGE_ENTRIES
            /\ kept = IF recorded > MAX_USAGE_ENTRIES THEN MAX_USAGE_ENTRIES ELSE recorded
            /\ \A i \in 1..kept : usage.uses[i] = outs[recorded - kept + i]
            /\ \A i \in 1..(kept - 1) : usage.uses[i].timestamp.n < usage.uses[i + 1].timestamp.n

\* C14 witness: 102 uses were recorded, the two oldest have been evicted
C14_Witness ==
    /\ fn = "trackUsage"
    /\ Len(outs) = MAX_USAGE_ENTRIES + 2
    /\ Len(usage.uses) = MAX_USAGE_ENTRIES
    /\ usage.uses[1] = outs[3]
    /\ usage.uses[1].timestamp = toISOString(StartMs + 2)

\* a usage file holding MAX_USAGE_ENTRIES entries
FullUsage ==
    [NoUsage EXCEPT !.kind = "json", !.firstUsed = toISOString(0),
                    !.lastUsed = toISOString(MAX_USAGE_ENTRIES), !.hasUses = TRUE,
                    !.uses = [i \in 1..MAX_USAGE_ENTRIES |-> UseEntry(Null, i)]]

\* the contents the usage file may have
UsageFiles == {NoUsage, CorruptUsage, EmptyUsage, FullUsage}

\* the outcome of the call that last' records, had the usage file held u and had
\* its directory accepted writes or not (usageOk)
WithUsage(u, usageOk) ==
    authorizeUsage(last'.licenseKey, last'.domain, cache, u, packageInfo, last'.remote,
                   now, writable, usageOk).ret

\* C15 (usage tracking is write-only telemetry): a call of authorizeUsage returns
\* the same result whatever the usage file holds (absent, "{}", corrupt, full) and
\* whether or not it can be written, and in none of these runs does the call throw.
C15_UsageWriteOnly ==
    [][(CallStep /\ last'.op = "authorizeUsage") =>
          \A u \in UsageFiles, usageOk \in BOOLEAN :
              /\ WithUsage(u, usageOk) = last'.ret
              /\ ~WithUsage(u, usageOk).threw]_vars

\* the part of C15 that holds: the outcome (result or throw) is the same for every
\* usage file
C15_SameOutcome ==
    [][(CallStep /\ last'.op = "authorizeUsage") =>
          \A u \in UsageFiles, usageOk \in BOOLEAN : WithUsage(u, usageOk) = last'.ret]_vars

\* C16 (bounded response of the remote call): a call that is waiting for the
\* endpoint eventually returns, also when the endpoint never answers.
C16_BoundedResponse == Awaiting ~> ~Awaiting

\* the safety half of C16: when the runtime gives a silent request up, the call
\* returns the FREE fail-open result of a network error
C16_TimeoutFailsOpen ==
    (CallEnded /\ last.remote = TimedOut) =>
        /\ ~last.ret.threw
        /\ R.tier = Str(free) /\ R.valid = Bool(FALSE)
        /\ R.error = IF variant = "authorization"
                     THEN Str(<<"NETWORK_ERROR:", TimedOut.message>>)
                     ELSE Str(<<"Network error: ", TimedOut.message>>)

\* the operations that clear the cache
Clears == {"clearAuthCache", "clearLicenseCache"}

\* C17 (as claimed): after clear has returned in a process that may write its
\* store, the next cache read is a miss.
C17_ClearThenMiss ==
    (last.op \in Clears /\ writable) => ~ReadCache(variant, cache, now).hit

\* C18 (as claimed): normalizeDomain is idempotent on every string, inputs that
\* normalize to an empty result included, and normalizeDomain of
\* "HTTPS://Example.COM/path" is "example.com".
C18_NormalizeIdempotent ==
    /\ (fn = "normalizeDomain" /\ arg.t = "string" /\ Len(outs) = 2) => outs[2] = outs[1]
    /\ (Applied("normalizeDomain") /\ arg = Str(exampleUrl)) => outs[1] = Str(exampleCom)

\* the part of C18 that holds: the example of the spec
C18_Example ==
    (Applied("normalizeDomain") /\ arg = Str(exampleUrl)) => outs[1] = Str(exampleCom)

\* the ASCII letters and digits, and the hexadecimal digits of either case
AsciiAlnum ==
    {"0","1","2","3","4","5","6","7","8","9"}
    \cup {"a","b","c","d","e","f","g","h","i","j","k","l","m",
          "n","o","p","q","r","s","t","u","v","w","x","y","z"}
    \cup {"A","B","C","D","E","F","G","H","I","J","K","L","M",
          "N","O","P","Q","R","S","T","U","V","W","X","Y","Z"}

HexDigits ==
    {"0","1","2","3","4","5","6","7","8","9"}
    \cup {"a","b","c","d","e","f"} \cup {"A","B","C","D","E","F"}

\* cs is groups of hexadecimal digits of the given sizes, joined by hyphens
RECURSIVE HexGroups(_, _)
HexGroups(cs, sizes) ==
    LET k == Head(sizes)
    IN  /\ Len(cs) >= k
        /\ \A i \in 1..k : cs[i] \in HexDigits
        /\ IF Len(sizes) = 1 THEN Len(cs) = k
           ELSE /\ Len(cs) > k
                /\ cs[k + 1] = "-"
                /\ HexGroups(SubSeq(cs, k + 2, Len(cs)), Tail(sizes))

\* a canonical 8-4-4-4-12 UUID
CanonicalUuid(cs) == HexGroups(cs, <<8, 4, 4, 4, 12>>)

\* 16 or more ASCII letters and digits and nothing else
LongAlnum(cs) == Len(cs) >= 16 /\ Range(cs) \subseteq AsciiAlnum

\* C19 (key format gate): isValidLicenseKeyFormat is true exactly for the strings
\* that are a canonical UUID (any letter case) or 16 or more ASCII letters and
\* digits, and false for every other value: the empty string, null, non-strings,
\* and every non-UUID string shorter than 16 characters.
C19_KeyFormatGate ==
    Applied("isValidLicenseKeyFormat") =>
        /\ outs[1] = Bool(arg.t = "string" /\ (CanonicalUuid(arg.s) \/ LongAlnum(arg.s)))
        /\ arg.t # "string" => outs[1] = Bool(FALSE)
        /\ arg = Str(<<>>) => outs[1] = Bool(FALSE)
        /\ (arg.t = "string" /\ Len(arg.s) < 16) => outs[1] = Bool(FALSE)

\* C19 witness: a key of 15 letters and digits was rejected
C19_Witness ==
    /\ Applied("isValidLicenseKeyFormat")
    /\ arg = Str(SubSeq(simpleKey, 1, 15))
    /\ outs[1] = Bool(FALSE)

\* C20 (as claimed): when a 2xx response with a JSON object body carries no tier
\* field, the returned result has tier free, whether or not the response grants
\* access.
C20_FreeIsDefaultTier ==
    (/\ CallEnded /\ last.posts = 1 /\ WellFormed(last.remote)
     /\ last.remote.body.tier = Undef /\ ~last.ret.threw) => R.tier = Str(free)

\* C26: the provenance flag is never persisted as true.  In every reachable state
\* the result of the persisted cache entry has fromCache false, and so has the
\* in-memory last result of the validateLicense variants; a call returns a result
\* with fromCache true only when it was answered from the cache.
C26_ProvenanceNotPersisted ==
    /\ cache.hasResult => cache.result.fromCache = Bool(FALSE)
    /\ cachedResult.has => cachedResult.r.fromCache = Bool(FALSE)
    /\ (CallEnded /\ ~last.ret.threw /\ IsTrue(R.fromCache))
          => last.branch \in {"CACHE_HIT", "MEMORY_HIT"}

\* a call of a validateLicense variant was answered from the persisted entry
C26_Witness ==
    /\ CallEnded
    /\ last.branch = "CACHE_HIT"
    /\ IsTrue(R.fromCache)
    /\ cache.hasResult
    /\ cachedResult.has

\* a step that is one call of authorizeUsage that got as far as trackUsage
TrackStep ==
    /\ CallStep
    /\ variant = "authorization"
    /\ last'.branch \in {"CACHE_HIT", "REMOTE_CHECK"}
    /\ ~last'.ret.threw

\* C27 (as claimed): whatever calls of authorizeUsage and clearAuthCache came
\* before, a call that reaches trackUsage, the directory accepting the write,
\* leaves a usage record with a firstUsed (the one it had, else now), lastUsed
\* now, and the call's use entry (now, the normalized domain handed to
\* trackUsage) as the last element of uses.
C27_UsageRecordStep ==
    [][(TrackStep /\ writable) =>
          /\ usage'.kind = "json"
          /\ usage'.firstUsed = (IF usage.kind = "json" /\ usage.firstUsed # Undef
                                 THEN usage.firstUsed ELSE toISOString(now))
          /\ usage'.lastUsed = toISOString(now)
          /\ usage'.uses # <<>>
          /\ usage'.uses[Len(usage'.uses)] = UseEntry(normalizeDomain(last'.domain), now)]_vars

\* the part of C27 that holds: the same, for a usage store that clearAuthCache
\* has not overwritten
C27_UsageRecordStepUncleared ==
    [][(TrackStep /\ writable /\ usage # EmptyUsage) =>
          /\ usage'.kind = "json"
          /\ usage'.firstUsed = (IF usage.kind = "json" /\ usage.firstUsed # Undef
                                 THEN usage.firstUsed ELSE toISOString(now))
          /\ usage'.lastUsed = toISOString(now)
          /\ usage'.uses # <<>>
          /\ usage'.uses[Len(usage'.uses)] = UseEntry(normalizeDomain(last'.domain), now)]_vars

\* the message that carries the error reason of result r
FailedMessage(r) ==
    Str(<<"License validation failed: ">> \o ToText(r.error) \o <<" - using free mode">>)

MismatchMessage == Str(<<"License domain mismatch - using free mode">>)

\* the call ended on a branch that makes a fail-open result with a reason
FailOpenBranch ==
    \/ last.branch \in {"NO_KEY", "INVALID_FORMAT", "NO_DOMAIN"}
    \/ last.branch = "REMOTE_CHECK" /\ RemoteFailed(last.remote)

\* C28 (as claimed): for the result of a validateLicense call that ended on the
\* no-key, invalid-format, domain-required, API-error or network-error branch,
\* getLicenseStatusMessage returns the message carrying that result's error
\* reason; a result that was not read from the cache gets the domain-mismatch
\* message only when the response reported domain_match false.
C28_StatusMessageReflectsBranch ==
    last.op = "validateLicense" =>
        /\ FailOpenBranch => getLicenseStatusMessage(R) = FailedMessage(R)
        /\ (last.branch # "CACHE_HIT" /\ getLicenseStatusMessage(R) = MismatchMessage) =>
              /\ last.branch = "REMOTE_CHECK"
              /\ WellFormed(last.remote)
              /\ last.remote.body.domain_match = Bool(FALSE)

\* what holds instead: every fail-open result gets the domain-mismatch message
C28_FailOpenReadsAsMismatch ==
    (last.op = "validateLicense" /\ FailOpenBranch) =>
        getLicenseStatusMessage(R) = MismatchMessage

\* what the argument-less predicates should say after a call that returned r
PaidResult(r) == r.tier \in PAID_TIERS /\ IsTrue(r.valid)

\* C29 (as claimed): in the file and browser variants, after a validateLicense
\* call that returned r, hasPaidFeatures() is true exactly when r has tier pro or
\* enterprise and valid true, and isLicenseValid() is r.valid; both are false
\* while no result is held; a call that returns a FREE result on the no-key,
\* invalid-format or domain-required branch never leaves hasPaidFeatures() true.
C29_PredicatesTrackLatestCall ==
    /\ last.op = "validateLicense" =>
          /\ hasPaidFeaturesLegacy(cachedResult) <=> PaidResult(R)
          /\ isLicenseValid(cachedResult) <=> IsTrue(R.valid)
    /\ ~cachedResult.has =>
          ~hasPaidFeaturesLegacy(cachedResult) /\ ~isLicenseValid(cachedResult)
    /\ (last.op = "validateLicense" /\ last.branch \in {"NO_KEY", "INVALID_FORMAT", "NO_DOMAIN"})
          => ~hasPaidFeaturesLegacy(cachedResult)

\* the part of C29 that holds: the predicates follow the calls that assign
\* cachedResult (cache hit, remote check) and are false while it is null
C29_PredicatesTrackStoringCalls ==
    /\ (last.op = "validateLicense" /\ last.branch \in {"CACHE_HIT", "REMOTE_CHECK"}) =>
          /\ hasPaidFeaturesLegacy(cachedResult) <=> PaidResult(R)
          /\ isLicenseValid(cachedResult) <=> IsTrue(R.valid)
    /\ ~cachedResult.has =>
          ~hasPaidFeaturesLegacy(cachedResult) /\ ~isLicenseValid(cachedResult)

\* C30 (as claimed): in the validateLicense variants, once a result is held in
\* memory, a call with a well-formed key made less than 24 hours after the
\* process started (so less than 24 hours after the call that stored it) sends no
\* request and returns fromCache true, whether or not the persisted store holds a
\* readable entry.
C30_MemoryShortcut ==
    [][(/\ CallStep
        /\ last'.op = "validateLicense"
        /\ cachedResult.has
        /\ now - StartMs < ttlMs
        /\ isValidLicenseKeyFormat(last'.licenseKey)) =>
          /\ last'.posts = 0
          /\ ~last'.ret.threw
          /\ last'.ret.result.fromCache = Bool(TRUE)]_vars

\* what holds instead: no call is ever answered from memory
C30_MemoryNeverAnswers == last.branch # "MEMORY_HIT"

\* the click left the component and the page as they were
NothingChanged == toolbar' = [toolbar EXCEPT !.clicks = toolbar'.clicks, !.click = toolbar'.click]

\* a Zoom Out or Reset click brought the zoom level back to 0
ZoomReturnsToZero ==
    /\ toolbar'.click \in {"zoomOut", "resetAll"}
    /\ toolbar.zoom > 0
    /\ toolbar'.zoom = 0

\* C24 (as claimed): after any sequence of Zoom In, Zoom Out and Reset clicks (and
\* of the other controls) the zoom level is an integer in 0..5; Zoom In at level 5
\* and Zoom Out at level 0 change nothing; and when the level returns to 0 every
\* element that was tracked has its inline font size cleared and renders at the
\* size it had before the first Zoom In.
C24_ZoomBounded ==
    [][/\ toolbar'.zoom \in 0..5
       /\ (toolbar'.click = "zoomIn" /\ toolbar.zoom = 5) => NothingChanged
       /\ (toolbar'.click = "zoomOut" /\ toolbar.zoom = 0) => NothingChanged
       /\ ZoomReturnsToZero =>
             \A el \in Elements :
                 toolbar.original[el] # NotTracked =>
                     /\ toolbar'.fontSize[el] = NoSize
                     /\ Rendered(el, toolbar'.fontSize[el])
                            = Rendered(el, AuthoredFontSize[el])]_vars

\* the part of C24 that holds: the range, the two clicks without effect, and the
\* clearing for the elements whose computed size was not 0; an element left
\* with an inline size keeps the size it rendered at
C24_ZoomBoundedNonZero ==
    [][/\ toolbar'.zoom \in 0..5
       /\ (toolbar'.click = "zoomIn" /\ toolbar.zoom = 5) => NothingChanged
       /\ (toolbar'.click = "zoomOut" /\ toolbar.zoom = 0) => NothingChanged
       /\ ZoomReturnsToZero =>
             \A el \in Elements :
                 (toolbar.original[el] # NotTracked /\ toolbar.original[el] # 0) =>
                     toolbar'.fontSize[el] = NoSize]_vars

\* every multi-level state is 0 and dark mode is off
DefaultState ==
    /\ toolbar.lineHeight = 0 /\ toolbar.textAlign = 0 /\ toolbar.saturation = 0
    /\ toolbar.cursor = 0 /\ toolbar.textSpacing = 0 /\ toolbar.zoom = 0
    /\ ~Truthy(toolbar.darkMode)

\* no toolbar class and no inline style on the root
CleanRoot == toolbar.classes = {} /\ toolbar.style = NoStyle

\* C25 (as claimed): after Reset All, whatever clicks came before, every
\* multi-level state is 0, dark mode is off, text-to-speech is off and none of its
\* hover listeners is left on the page, and the root carries no toolbar class and
\* no inline style.
C25_ResetRestoresDefaults ==
    toolbar.click = "resetAll" =>
        /\ DefaultState
        /\ ~Truthy(toolbar.textToSpeech)
        /\ toolbar.listeners = {}
        /\ CleanRoot

\* the part of C25 that holds: everything but the hover listeners
C25_ResetExceptListeners ==
    toolbar.click = "resetAll" =>
        /\ DefaultState
        /\ ~Truthy(toolbar.textToSpeech)
        /\ CleanRoot

\* authorizeUsage has produced its outcome and scanWebsite has not been called yet
OutcomeKnown == cli.outcome # "none" /\ cli.scans = 0

CompliancePrinted == cli.compliance # "none"

\* C22 (as claimed): the CLI prints the WCAG compliance level only for an
\* authorized enterprise-tier result, and prints the status as locked for
\* free-tier and pro-tier results.
C22_ComplianceEnterpriseOnly ==
    CompliancePrinted =>
        (cli.compliance # "LOCKED"
            <=> (IsTrue(cli.authResult.authorized) /\ cli.authResult.tier = Str(enterprise)))

\* what holds instead: the level is printed for every result with paid features,
\* pro included
C22_ComplianceForPaidTiers ==
    CompliancePrinted =>
        (cli.compliance # "LOCKED"
            <=> (IsTrue(cli.authResult.authorized) /\ cli.authResult.tier \in PAID_TIERS))

GatedFormats == {Str(<<"pdf">>), Str(<<"html">>), Str(<<"json">>)}

\* null (or another primitive), a result that is not authorized, or a result of
\* a tier that is not paid: every FREE result is one
Unentitled(a) ==
    \/ "t" \in DOMAIN a
    \/ ~IsTrue(a.authorized)
    \/ a.tier \notin PAID_TIERS

\* C23 (paid output gating): for every authorization result for which
\* hasPaidFeatures is false (every FREE result, null, an unauthorized result),
\* exportReport returns a locked error for the formats pdf, html and json, with no
\* report content or file and without calling a report generator.
C23_PaidOutputGating ==
    (Applied("exportReport") /\ arg.format \in GatedFormats) =>
        /\ Unentitled(arg.authResult) = ~hasPaidFeatures(arg.authResult)
        /\ ~hasPaidFeatures(arg.authResult) =>
              /\ outs[1].locked
              /\ outs[1].error # ""
              /\ outs[1].type = "none"
              /\ outs[1].generators = {}

\* exportReport has refused the JSON export of a FREE result
C23_Witness ==
    /\ Applied("exportReport")
    /\ arg.format = Str(<<"json">>)
    /\ arg.authResult = createFreeResult(Str(<<"No license key provided">>))
    /\ outs[1].locked

\* the expiry date e of a result lies before the instant t
ExpiredBy(e, t) == e.t \in {"date", "string"} /\ getTime(NewDate(e)).s = <<>> /\ NewDate(e).n < t

\* the result says the caller is entitled
Entitled(r) == IsTrue(r.valid) \/ IsTrue(r.authorized)

\* C31 (as claimed): no call of authorizeUsage or validateLicense returns a result
\* with valid true or authorized true whose expiresAt is earlier than the time of
\* the call, neither after a remote check nor on a cache hit within the TTL.
C31_ExpiredNeverEntitled ==
    (CallEnded /\ ~last.ret.threw /\ Entitled(R)) => ~ExpiredBy(R.expiresAt, now)

\* the part of C31 that holds: an entitled result that has expired is one the
\* endpoint granted with an expiry already past, or one read back from the cache
C31_ExpiredOnlyFromCacheOrEndpoint ==
    (CallEnded /\ ~last.ret.threw /\ Entitled(R) /\ ExpiredBy(R.expiresAt, now)) =>
        \/ last.branch = "CACHE_HIT"
        \/ last.branch = "REMOTE_CHECK" /\ ExpiredBy(last.remote.body.expires_at, now)

\* the keys that pass the format check
WellFormedKeys == {k \in LicenseKeys : isValidLicenseKeyFormat(k)}

\* the endpoint refuses: { authorized: false, error: "license revoked" }
Refusal ==
    Json(200, Body(Bool(FALSE), Bool(FALSE), Bool(FALSE), Bool(FALSE), Undef, Undef,
                   Str(<<"license revoked">>)))

\* a step that is one call of authorizeUsage returning an authorized result
AuthorizedStep ==
    /\ CallStep /\ last'.op = "authorizeUsage"
    /\ ~last'.ret.threw /\ IsTrue(last'.ret.result.authorized)

\* what a call with key k and domain d returns when it is made right after the
\* step, over the stores the step leaves, and the endpoint refuses k and d
FollowUp(k, d) ==
    authorizeUsage(k, d, cache', usage', packageInfo, Refusal, now, writable, writable).ret

\* C32 (as claimed): an authorized result of authorizeUsage(k, d) carries the domain
\* normalizeDomain(d) and, when the call asked the endpoint, the endpoint granted;
\* and a paid result obtained for k and d is not returned to a call made with
\* another well-formed key or with another, or no, domain.
C32_BoundToKeyAndDomain ==
    [][AuthorizedStep =>
          /\ last'.ret.result.domain = normalizeDomain(last'.domain)
          /\ last'.posts = 1 => Truthy(last'.remote.body.authorized)
          /\ \A k \in WellFormedKeys, d \in DomainInputs :
                (k # last'.licenseKey \/ normalizeDomain(d) # normalizeDomain(last'.domain))
                    => ~hasPaidFeatures(FollowUp(k, d).result)]_vars

\* the part of C32 that holds: an authorized result comes from the call's own
\* request, granted by the endpoint and carrying the call's normalized domain, or
\* from the cache
C32_GrantBoundOnRemoteCheck ==
    (last.op = "authorizeUsage" /\ ~last.ret.threw /\ IsTrue(R.authorized)) =>
        \/ last.branch = "CACHE_HIT"
        \/ /\ last.branch = "REMOTE_CHECK" /\ last.posts = 1
           /\ Truthy(last.remote.body.authorized)
           /\ R.domain = normalizeDomain(last.domain)

\* the record is not a well-formed cache entry: it does not parse, its timestamp
\* is missing or no date, or its result is missing or lacks valid or tier
Malformed(c) ==
    \/ c.kind = "corrupt"
    \/ /\ c.kind = "json"
       /\ \/ getTime(NewDate(c.timestamp)) = NaN
          \/ c.timestamp.t \notin {"string", "date"}
          \/ ~c.hasResult
          \/ c.result.valid.t = "undefined"
          \/ c.result.tier.t = "undefined"

\* the outcome of the call that last' records, had the store held no record
OnEmptyCache ==
    IF variant = "authorization"
    THEN authorizeUsage(last'.licenseKey, last'.domain, NoFile, usage, packageInfo,
                        last'.remote, now, writable, writable)
    ELSE validateLicense(variant, last'.licenseKey, last'.domain, NoFile, cachedResult,
                         last'.remote, now, writable)

\* C33 (as claimed): a call that finds a malformed record in the store (unparsable,
\* timestamp missing or no date, result missing or without valid or tier) reads a
\* miss, does not throw, returns what it returns on an empty cache and sends the
\* requests it sends on an empty cache.
C33_MalformedIsAbsent ==
    [][(CallStep /\ Malformed(cache)) =>
          /\ ~ReadCache(variant, cache, now).hit
          /\ ~last'.ret.threw \/ OnEmptyCache.ret.threw
          /\ last'.ret = OnEmptyCache.ret
          /\ last'.posts = OnEmptyCache.posts]_vars

\* the part of C33 that holds: a record that does not parse, or whose timestamp is
\* missing or no date, is read as a miss and the call goes on as on an empty cache
C33_UnreadableIsAbsent ==
    [][(/\ CallStep
        /\ \/ cache.kind = "corrupt"
           \/ cache.kind = "json" /\ (getTime(NewDate(cache.timestamp)) = NaN
                                      \/ cache.timestamp.t \notin {"string", "date"})) =>
          /\ ~ReadCache(variant, cache, now).hit
          /\ last'.ret = OnEmptyCache.ret
          /\ last'.posts = OnEmptyCache.posts]_vars

\* call p has returned
Over(p) == race.calls[p].pc = "done"

\* call p performed the remote check and came back from it with a result
Fetched(p) ==
    /\ race.calls[p].branch = "REMOTE_CHECK"
    /\ race.calls[p].pc # "await"
    /\ ~race.calls[p].ret.threw

\* the result call p got from its own request
OwnResult(p) ==
    LET c == race.calls[p]
    IN  CASE variant = "authorization" ->
                BuildResult(callAuthorizationApi(c.remote), normalizeDomain(c.domain), now)
          [] variant = "file" -> Returned(callLicenseApiFile(c.remote))
          [] OTHER -> Returned(callLicenseApiBrowser(c.remote))

\* each call sent at most one request, and a call that has returned returned the
\* result of its own request or the result the other call had fetched, as the
\* cache gives it back
OwnOrCached(p) ==
    LET c == race.calls[p]
    IN  /\ c.posts \in {0, 1}
        /\ (Over(p) /\ ~c.ret.threw) =>
              \/ c.branch = "REMOTE_CHECK" /\ c.posts = 1 /\ c.ret = OwnResult(p)
              \/ /\ c.branch = "CACHE_HIT" /\ c.posts = 0 /\ Fetched(Other(p))
                 /\ c.ret.result =
                        WithFromCache(JsonRoundTrip(race.calls[Other(p)].ret.result))

\* when both calls have returned and the directory takes writes, the cache holds
\* the record of one of the results that were fetched
OneOfTheResults ==
    (writable /\ (\A p \in Callers : Over(p)) /\ (\E p \in Callers : Fetched(p))) =>
        \E p \in Callers : Fetched(p) /\ cache = CacheData(race.calls[p].ret.result, now)

\* C34 (as claimed): two calls with the same well-formed key and domain over an
\* empty cache, interleaved in one process or in two, each send at most one
\* request, each return the result of their own request or a cached one, and
\* leave as cache record exactly one of the two results, never a mixture.
C34_RacingCallsHarmless ==
    (race.mode \in {"process", "processes"} /\ ~race.cleared) =>
        /\ \A p \in Callers : OwnOrCached(p)
        /\ OneOfTheResults

\* the part of C34 that holds: what each call sends and returns, in one process
\* and in two, and the cache record two calls of one process leave
C34_RacingInOneProcess ==
    (race.mode \in {"process", "processes"} /\ ~race.cleared) =>
        /\ \A p \in Callers : OwnOrCached(p)
        /\ race.mode = "process" => OneOfTheResults

\* call p started before the clear
BegunBefore(p) == race.calls[p].pc # "start" /\ ~race.calls[p].afterClear

\* call p started after the clear
BegunAfter(p) == race.calls[p].pc # "start" /\ race.calls[p].afterClear

\* the clear ran while a call was suspended in its request, and the calls that
\* were not suspended then had not started
ClearedInFlight ==
    /\ race.mode # "none" /\ race.cleared /\ race.suspended # {}
    /\ \A p \in Callers \ race.suspended : ~BegunBefore(p)

\* the persisted cache and the in-memory last result hold no valid or authorized
\* result
NoEntitlementHeld ==
    /\ ReadCache(variant, cache, now).hit => ~Entitled(ReadCache(variant, cache, now).result)
    /\ cachedResult.has => ~Entitled(cachedResult.r)

\* C35 (as claimed): when clearAuthCache or clearLicenseCache ran while a call was
\* suspended on its request, then once that call has returned the cache and the
\* in-memory result hold no entitlement, and the call started after the clear does
\* not read one from the cache: it performs the remote check.
C35_ClearNotUndone ==
    ClearedInFlight =>
        /\ ((\A p \in race.suspended : Over(p)) /\ (\A p \in Callers : ~BegunAfter(p)))
              => NoEntitlementHeld
        /\ \A p \in Callers : BegunAfter(p) => race.calls[p].branch # "CACHE_HIT"

\* the part of C35 that holds: in one process whose store takes writes, when no
\* call was in flight at the clear of authorization.js or license-browser.js, the
\* first call started after it performs the remote check
C35_ClearWithNothingInFlight ==
    (/\ race.mode = "process" /\ race.cleared /\ race.suspended = {}
     /\ writable /\ variant # "file") =>
        \A p \in Callers :
            (BegunAfter(p) /\ ~BegunAfter(Other(p))) => race.calls[p].branch # "CACHE_HIT"

\* call p went through trackUsage: it was answered from the cache or came back
\* from its request with a result
Recorded(p) ==
    /\ Over(p) /\ ~race.calls[p].ret.threw
    /\ race.calls[p].branch \in {"CACHE_HIT", "REMOTE_CHECK"}

\* the persisted uses list has one entry for each call that recorded usage
OneEntryPerRecording ==
    (variant = "authorization" /\ writable /\ ~race.cleared /\ \A p \in Callers : Over(p)) =>
        Len(usage.uses) = Cardinality({p \in Callers : Recorded(p)})

\* C36 (as claimed): when two processes sharing one usage file each record usage
\* (read, append, truncate, write) in any interleaving, far below the cap of 100
\* entries, the persisted uses list ends up with one entry per recording call.
C36_NoUsageEntryLost == race.mode = "processes" => OneEntryPerRecording

\* the part of C36 that holds: two calls of one process each leave their entry,
\* and across processes the list never has more entries than recordings and has
\* at least one when a call recorded
C36_UsageEntriesInOneProcess ==
    /\ race.mode = "process" => OneEntryPerRecording
    /\ (/\ race.mode = "processes" /\ writable /\ ~race.cleared
        /\ \A p \in Callers : Over(p)) =>
          /\ Len(usage.uses) <= Cardinality({p \in Callers : Recorded(p)})
          /\ (\E p \in Callers : Recorded(p)) => Len(usage.uses) >= 1

\* the errors that say a domain is required, one per variant
DomainRequired ==
    {Str(<<"Domain required for authorization">>), Str(<<"Domain required">>),
     Str(<<"Domain required for validation">>)}

\* the call that last' records returned FREE for want of a domain, sent no request
\* and left the cache and the usage record as they were
EndedForWantOfDomain ==
    /\ ~last'.ret.threw
    /\ last'.ret.result.tier = Str(free)
    /\ last'.ret.result.valid = Bool(FALSE)
    /\ last'.ret.result.error \in DomainRequired
    /\ last'.posts = 0
    /\ cache' = cache
    /\ usage' = usage

\* C37 (as claimed): a call with a well-formed key whose cache read misses and
\* whose domain is absent, no string, or normalizes to the empty string returns a
\* FREE result whose error says a domain is required, sends no request and leaves
\* the persisted cache and the usage record unchanged.
C37_MissingDomainTerminal ==
    [][(/\ CallStep
        /\ isValidLicenseKeyFormat(last'.licenseKey)
        /\ ~ReadCache(variant, cache, now).hit
        /\ ~Truthy(normalizeDomain(last'.domain))) => EndedForWantOfDomain]_vars

\* the part of C37 that holds: the same for the test each variant makes,
\* authorizeUsage on the normalized domain, validateLicense on the domain as given
C37_MissingDomainAsTested ==
    [][(/\ CallStep
        /\ isValidLicenseKeyFormat(last'.licenseKey)
        /\ ~ReadCache(variant, cache, now).hit
        /\ NoDomain(variant, last'.domain)) => EndedForWantOfDomain]_vars

====
